---- MODULE Spec2Model ----
(***************************************************************************)
(* Resumable crawl checkpoint (ProgressTracker), URL dedup index            *)
(* (ProcessedURLManager) and search cursor (SearchMechanism) of the         *)
(* scraper, as state machines.                                             *)
(*                                                                         *)
(* Text that the code formats and parses (the dedup log) is a sequence of  *)
(* characters.  The character "P" stands for the literal URL prefix        *)
(* 'https://www.scribd.com/document/', "NL" for a newline and "SP" for a   *)
(* blank; every other character is an ordinary one.                        *)
(***************************************************************************)
EXTENDS Integers, Sequences, FiniteSets, TLC

VARIABLES
    processed_urls,       \* ProcessedURLManager.processed_urls : set of URL
    category_urls,        \* ProcessedURLManager.category_urls : cat -> sub -> set
    processed_urls_file,  \* content of processed_urls.txt, or NoFile
    url_ret,              \* the last ProcessedURLManager call and what it returned
    added,                \* history: URLs for which add_url has returned True
    progress_data,        \* ProgressTracker.progress_data
    progress_file,        \* content of search_progress.json, or NoFile
    pt_ret,               \* the last ProgressTracker call and what it returned
    resume_seen,          \* history: the decision get_resume_point gave to the
                          \* last tracker that asked right after it had loaded
                          \* the progress file as it is now, and whether a
                          \* tracker before it had done the same
    search,               \* the SearchMechanism object: its fields
    sm_ret,               \* the last SearchMechanism call and what it returned
    visited               \* history: the (category, subcategory) pairs of the
                          \* items initialize_search and move_to_next returned

url_vars == <<processed_urls, category_urls, processed_urls_file, url_ret, added>>
pt_vars == <<progress_data, progress_file, pt_ret, resume_seen>>
sm_vars == <<search, sm_ret, visited>>
vars == <<processed_urls, category_urls, processed_urls_file, url_ret, added,
          progress_data, progress_file, pt_ret, resume_seen, search, sm_ret, visited>>

\* no SearchMechanism has been constructed
NoSearch == [constructed |-> FALSE]

SearchIdle ==
    /\ search = NoSearch
    /\ sm_ret = [op |-> "init"]
    /\ visited = <<>>

----------------------------------------------------------------------------
(* Python values *)

\* None where a string is expected
None == "None"

\* a path that names no file; <<>> is the file that is there and empty
NoFile == <<"ENOENT">>

\* Python truthiness of a string argument: None and '' are falsy
Truthy(s) == s /= None /\ s /= ""

\* the same for a string held as its characters, and for a pattern key
NonEmpty(s) == s /= <<>>

\* the elements of a list
Range(s) == {s[i] : i \in 1..Len(s)}

RECURSIVE SumOver(_, _)
\* sum(f[x] for x in S)
SumOver(f, S) ==
    IF S = {} THEN 0
    ELSE LET x == CHOOSE y \in S : TRUE
         IN f[x] + SumOver(f, S \ {x})

----------------------------------------------------------------------------
(* ProcessedURLManager: text of the dedup log *)

\* str.startswith('https://www.scribd.com/document/')
StartsWithPrefix(url) == Len(url) >= 1 /\ url[1] = "P"

IsSpace(ch) == ch \in {"SP", "NL"}

RECURSIVE LStrip(_)
LStrip(s) == IF s /= <<>> /\ IsSpace(Head(s)) THEN LStrip(Tail(s)) ELSE s

RECURSIVE RStrip(_)
RStrip(s) ==
    IF s /= <<>> /\ IsSpace(s[Len(s)]) THEN RStrip(SubSeq(s, 1, Len(s) - 1)) ELSE s

\* str.strip() with a variant that leaves the text as it is
Strip_none(s) == s

\* str.strip()
Strip(s) == RStrip(LStrip(s))

RECURSIVE SplitAcc(_, _, _)
SplitAcc(s, sep, cur) ==
    IF s = <<>> THEN <<cur>>
    ELSE IF Head(s) = sep THEN <<cur>> \o SplitAcc(Tail(s), sep, <<>>)
    ELSE SplitAcc(Tail(s), sep, Append(cur, Head(s)))

\* str.split(sep): the fields between the separators (always at least one)
Split(s, sep) == SplitAcc(s, sep, <<>>)

RECURSIVE LinesAcc(_, _)
LinesAcc(s, cur) ==
    IF s = <<>> THEN (IF cur = <<>> THEN <<>> ELSE <<cur>>)
    ELSE IF Head(s) = "NL" THEN <<Append(cur, "NL")>> \o LinesAcc(Tail(s), <<>>)
    ELSE LinesAcc(Tail(s), Append(cur, Head(s)))

\* iterating a text file: the lines, each with its newline, and a last line
\* without one when the file does not end in a newline
FileLines(text) == LinesAcc(text, <<>>)

\* f"{category}|{subcategory}|{url}\n"
FormatRecord(category, subcategory, url) ==
    category \o <<"|">> \o subcategory \o <<"|">> \o url \o <<"NL">>

\* the verdict on one line of the log: "ok" with its three fields, or the issue
ParseLine(line) ==
    IF "|" \notin Range(line) THEN [ok |-> FALSE, issue |-> "Missing separator"]
    ELSE LET parts == Split(Strip(line), "|")
         IN IF Len(parts) /= 3 THEN [ok |-> FALSE, issue |-> "Invalid format"]
            ELSE IF ~StartsWithPrefix(parts[3])
                 THEN [ok |-> FALSE, issue |-> "Invalid URL format"]
            ELSE [ok |-> TRUE, category |-> parts[1], subcategory |-> parts[2],
                  url |-> parts[3]]

----------------------------------------------------------------------------
(* ProcessedURLManager: the in-memory index *)

\* category_urls[category][subcategory].add(url), creating the buckets if needed
BucketAdd(cu, category, subcategory, url) ==
    LET subs == IF category \in DOMAIN cu THEN cu[category] ELSE <<>>
        old == IF subcategory \in DOMAIN subs THEN subs[subcategory] ELSE {}
        subs2 == [s \in DOMAIN subs \cup {subcategory} |->
                    IF s = subcategory THEN old \cup {url} ELSE subs[s]]
    IN [c \in DOMAIN cu \cup {category} |-> IF c = category THEN subs2 ELSE cu[c]]

\* the manager's memory: the flat set, the per-category index and the issues
EmptyIndex == [processed_urls |-> {}, category_urls |-> <<>>, invalid_lines |-> <<>>]

RECURSIVE LoadLines(_, _, _)
LoadLines(lines, n, m) ==
    IF n > Len(lines) THEN m
    ELSE LET p == ParseLine(lines[n])
         IN IF p.ok
            THEN LoadLines(lines, n + 1,
                    [m EXCEPT !.processed_urls = @ \cup {p.url},
                              !.category_urls =
                                  BucketAdd(@, p.category, p.subcategory, p.url)])
            ELSE LoadLines(lines, n + 1,
                    [m EXCEPT !.invalid_lines = Append(@, <<n, p.issue>>)])

\* load_processed_urls on a fresh manager
load_processed_urls(file) ==
    IF file = NoFile THEN EmptyIndex
    ELSE LoadLines(FileLines(file), 1, EmptyIndex)

\* is_processed
is_processed(pu, url) == url \in pu

\* add_url with a variant that forgets the flat set (the per-category index only)
add_url_no_index(pu, cu, file, category, subcategory, url, io_ok) ==
    IF ~(NonEmpty(category) /\ NonEmpty(subcategory) /\ NonEmpty(url))
    THEN [ret |-> FALSE, processed_urls |-> pu, category_urls |-> cu, file |-> file]
    ELSE IF ~StartsWithPrefix(url)
    THEN [ret |-> FALSE, processed_urls |-> pu, category_urls |-> cu, file |-> file]
    ELSE IF url \in pu
    THEN [ret |-> FALSE, processed_urls |-> pu, category_urls |-> cu, file |-> file]
    ELSE IF ~io_ok
    THEN [ret |-> FALSE, processed_urls |-> pu, category_urls |-> cu, file |-> file]
    ELSE [ret |-> TRUE,
          processed_urls |-> pu,
          category_urls |-> BucketAdd(cu, category, subcategory, url),
          file |-> (IF file = NoFile THEN <<>> ELSE file)
                   \o FormatRecord(category, subcategory, url)]

\* the refusal of a known URL, with a variant that files the URL under the
\* category and subcategory of the call all the same
Duplicate_rebucket(pu, cu, file, category, subcategory, url) ==
    [ret |-> FALSE, processed_urls |-> pu,
     category_urls |-> BucketAdd(cu, category, subcategory, url), file |-> file]

\* url in self.processed_urls: the call logs and returns False
Duplicate(pu, cu, file, category, subcategory, url) ==
    [ret |-> FALSE, processed_urls |-> pu, category_urls |-> cu, file |-> file]

\* the failed write, with a variant that has updated memory before it writes
WriteFailed_memory_first(pu, cu, file, category, subcategory, url) ==
    [ret |-> FALSE, processed_urls |-> pu \cup {url},
     category_urls |-> BucketAdd(cu, category, subcategory, url), file |-> file]

\* open, read, write or os.replace raises: the temporary file is removed, the
\* exception is raised again, caught by the outer handler and the call returns
\* False; the log and memory have not been touched
WriteFailed(pu, cu, file, category, subcategory, url) ==
    [ret |-> FALSE, processed_urls |-> pu, category_urls |-> cu, file |-> file]

\* what the temporary file gets first, with a variant that does not copy the log
PreviousContent_none(file) == <<>>

\* temp.write(original.read()) if the log exists
PreviousContent(file) == IF file = NoFile THEN <<>> ELSE file

\* add_url: validate, refuse a known URL, rewrite the log through the temporary
\* file and replace it, then update memory.  io_ok = FALSE is any failure of
\* the write (open, read, write or replace raising).
add_url(pu, cu, file, category, subcategory, url, io_ok) ==
    IF ~(NonEmpty(category) /\ NonEmpty(subcategory) /\ NonEmpty(url))
    THEN [ret |-> FALSE, processed_urls |-> pu, category_urls |-> cu, file |-> file]
    ELSE IF ~StartsWithPrefix(url)
    THEN [ret |-> FALSE, processed_urls |-> pu, category_urls |-> cu, file |-> file]
    ELSE IF url \in pu
    THEN Duplicate(pu, cu, file, category, subcategory, url)
    ELSE IF ~io_ok
    THEN WriteFailed(pu, cu, file, category, subcategory, url)
    ELSE [ret |-> TRUE,
          processed_urls |-> pu \cup {url},
          category_urls |-> BucketAdd(cu, category, subcategory, url),
          file |-> PreviousContent(file) \o FormatRecord(category, subcategory, url)]

\* add_url cut short by the death of the process: when the temporary file has
\* been opened, when the log has been copied into it, when the record has
\* been written to it, or when os.replace has put it in the place of the log
AddUrlCrashPoints == {"temp_opened", "copied", "record_written", "replaced"}

\* the log and the temporary file that the death of the process leaves
add_url_crash(file, category, subcategory, url, point) ==
    LET whole == PreviousContent(file) \o FormatRecord(category, subcategory, url)
    IN CASE point = "temp_opened" -> [file |-> file, temp |-> <<>>]
         [] point = "copied" -> [file |-> file, temp |-> PreviousContent(file)]
         [] point = "record_written" -> [file |-> file, temp |-> whole]
         [] OTHER -> [file |-> whole, temp |-> NoFile]

\* get_category_urls(category, subcategory)
get_category_urls(cu, category, subcategory) ==
    IF category \notin DOMAIN cu THEN {}
    ELSE IF NonEmpty(subcategory)
    THEN (IF subcategory \in DOMAIN cu[category] THEN cu[category][subcategory] ELSE {})
    ELSE UNION {cu[category][s] : s \in DOMAIN cu[category]}

\* get_stats
get_stats(pu, cu) ==
    [total_urls |-> Cardinality(pu),
     categories |->
        [c \in DOMAIN cu |->
            [total |-> SumOver([s \in DOMAIN cu[c] |-> Cardinality(cu[c][s])],
                               DOMAIN cu[c]),
             subcategories |-> [s \in DOMAIN cu[c] |-> Cardinality(cu[c][s])]]]]

\* get_unprocessed_urls
get_unprocessed_urls(pu, urls) == SelectSeq(urls, LAMBDA u : ~is_processed(pu, u))

----------------------------------------------------------------------------
(* Python dict, in insertion order: a list of entries [k, v] with distinct k *)

DictHas(d, k) == \E i \in 1..Len(d) : d[i].k = k

DictIdx(d, k) == CHOOSE i \in 1..Len(d) : d[i].k = k

\* d[k]
DictGet(d, k) == d[DictIdx(d, k)].v

\* d.get(k, default)
DictGetOr(d, k, default) == IF DictHas(d, k) THEN DictGet(d, k) ELSE default

\* d[k] = v: an existing key keeps its place, a new key goes last
DictPut(d, k, v) ==
    IF DictHas(d, k) THEN [d EXCEPT ![DictIdx(d, k)].v = v]
    ELSE Append(d, [k |-> k, v |-> v])

DictKeys(d) == {d[i].k : i \in 1..Len(d)}

\* list.remove(x) with a variant that drops the head of the list (pop(0))
ListRemove_head(list, x) == Tail(list)

\* list.remove(x): the first occurrence goes
ListRemove(list, x) ==
    LET i == CHOOSE j \in 1..Len(list) :
                 list[j] = x /\ \A h \in 1..(j - 1) : list[h] /= x
    IN SubSeq(list, 1, i - 1) \o SubSeq(list, i + 1, Len(list))

RECURSIVE Concat(_)
\* the lists of a list, one after the other
Concat(ss) == IF ss = <<>> THEN <<>> ELSE Head(ss) \o Concat(Tail(ss))

----------------------------------------------------------------------------
(* ProgressTracker *)

\* the download count at which update_pattern_progress completes a pattern
DownloadThreshold == 2

\* f"pattern_{n}"
PatternKey(n) == <<"pattern", n>>

\* None where a pattern key is expected
NoKey == <<>>

\* progress_data as __init__ builds it
InitialProgressData ==
    [pattern_data |-> <<>>,
     statistics |-> [total_patterns |-> 0, completed_patterns |-> 0,
                     total_urls |-> 0, downloaded_urls |-> 0, failed_urls |-> 0],
     current_position |-> [category |-> None, subcategory |-> None,
                           pattern_index |-> 0, current_pattern |-> None]]

\* json.dump writes a dict key that is None as "null"
JsonKey(k) == IF k = None THEN "null" ELSE k

\* json.dump writes a value that is None as null
JsonNull == "null"
JsonValue(v) == IF v = None THEN JsonNull ELSE v

\* the three keys of the current schema, as json.dump writes them
DumpCurrentKeys(pd) ==
    [pattern_data |->
        [i \in 1..Len(pd.pattern_data) |->
            [k |-> JsonKey(pd.pattern_data[i].k),
             v |-> [j \in 1..Len(pd.pattern_data[i].v) |->
                      [k |-> JsonKey(pd.pattern_data[i].v[j].k),
                       v |-> pd.pattern_data[i].v[j].v]]]],
     statistics |-> pd.statistics,
     current_position |->
        [category |-> JsonValue(pd.current_position.category),
         subcategory |-> JsonValue(pd.current_position.subcategory),
         pattern_index |-> pd.current_position.pattern_index,
         current_pattern |-> JsonValue(pd.current_position.current_pattern)]]

\* json.dump(progress_data): the document written to the progress file, with
\* every key the dict has (a progress file of another schema brings keys of
\* its own, which stay in the dict)
json_dump(pd) ==
    LET doc == DumpCurrentKeys(pd)
    IN [f \in DOMAIN pd |-> IF f \in DOMAIN doc THEN doc[f] ELSE pd[f]]

\* the text of a document: the opening brace, the members, the closing brace
JsonText(doc) == <<"{", doc, "}">>

\* a file that open(..., 'w') has emptied
EmptyText == <<>>

\* a file in which the dump has stopped before the closing brace
HalfWritten == <<"{">>

\* save_progress: the progress file after the call.  io = "ok" writes the
\* document; "open_fails" leaves the file as it was; "write_fails" leaves it
\* half-written.  The exception is logged and not raised in either case.
save_progress(pd, file, io) ==
    CASE io = "ok" -> JsonText(json_dump(pd))
      [] io = "open_fails" -> file
      [] OTHER -> HalfWritten

\* save_progress cut short by the death of the process: before the file is
\* opened, after open(..., 'w') has emptied it, while json.dump is writing,
\* or when the document is complete
CrashPoints == {"before_open", "after_open", "in_dump", "after_dump"}

save_progress_crash(pd, file, point) ==
    CASE point = "before_open" -> file
      [] point = "after_open" -> EmptyText
      [] point = "in_dump" -> HalfWritten
      [] OTHER -> JsonText(json_dump(pd))

\* json.load gives None for null, with a variant that keeps the token
PyValue_keep(v) == v

\* json.load gives None for null
PyValue(v) == IF v = JsonNull THEN None ELSE v

\* the three keys of the current schema, as json.load reads them: the keys
\* of the dicts stay the strings they are
LoadCurrentKeys(doc) ==
    [pattern_data |-> doc.pattern_data,
     statistics |-> doc.statistics,
     current_position |->
        [category |-> PyValue(doc.current_position.category),
         subcategory |-> PyValue(doc.current_position.subcategory),
         pattern_index |-> doc.current_position.pattern_index,
         current_pattern |-> PyValue(doc.current_position.current_pattern)]]

\* progress_data.update(json.load(f)): every key of the document replaces the
\* default or is added to the dict
json_load(text) ==
    LET doc == text[2]
        pd == LoadCurrentKeys(doc)
    IN [f \in DOMAIN doc |-> IF f \in DOMAIN pd THEN pd[f] ELSE doc[f]]

\* the text parses: it is a whole document
Parses(text) == Len(text) = 3

\* load_progress with a variant that reads the file and keeps the defaults
load_progress_forgets(pd, file, readable) ==
    [failed |-> file /= NoFile /\ (~readable \/ ~Parses(file)), progress_data |-> pd]

\* load_progress on the progress_data that __init__ has built: nothing is
\* loaded when the file is missing; when open or json.load raises (readable =
\* FALSE is open or read raising) the exception is logged and the defaults
\* stay; otherwise the keys of the document replace the defaults
load_progress(pd, file, readable) ==
    IF file = NoFile THEN [failed |-> FALSE, progress_data |-> pd]
    ELSE IF ~readable \/ ~Parses(file) THEN [failed |-> TRUE, progress_data |-> pd]
    ELSE [failed |-> FALSE, progress_data |-> json_load(file)]

\* pattern_data[category][subcategory], or the empty dict
SubPatterns(pd, category, subcategory) ==
    DictGetOr(DictGetOr(pd.pattern_data, category, <<>>), subcategory, <<>>)

\* the same with a variant that starts the category afresh (the assignment
\* pattern_data[category] = {} without its test)
PutSubPatterns_fresh(pattern_data, category, subcategory, patterns) ==
    DictPut(pattern_data, category, DictPut(<<>>, subcategory, patterns))

\* pattern_data[category][subcategory] = patterns, the entries created if needed
PutSubPatterns(pattern_data, category, subcategory, patterns) ==
    DictPut(pattern_data, category,
            DictPut(DictGetOr(pattern_data, category, <<>>), subcategory, patterns))

\* the key of the next pattern of a subcategory, with a variant that does not
\* count the patterns the subcategory has
NewPatternKey_first(patterns) == PatternKey(1)

\* pattern_key = f"pattern_{len(patterns) + 1}"
NewPatternKey(patterns) == PatternKey(Len(patterns) + 1)

\* statistics[name] += n raises KeyError when the dict has no such key
HasCounter(statistics, name) == name \in DOMAIN statistics

\* initialize_pattern_tracking, up to the save; "saved" tells whether the call
\* reaches save_progress.  The entry and the position are assigned before the
\* two counters are incremented; an increment that raises ends the call in the
\* handler, which returns None (the empty key) with what has been assigned.
initialize_pattern_tracking(pd, category, subcategory, pattern, urls) ==
    LET patterns == SubPatterns(pd, category, subcategory)
        pattern_key == NewPatternKey(patterns)
        entry == [pattern |-> pattern,
                  status |-> "in_progress",
                  urls |-> [total |-> Len(urls), downloaded |-> <<>>,
                            pending |-> urls, failed |-> <<>>]]
        patterns2 == DictPut(patterns, pattern_key, entry)
        positioned ==
            [pd EXCEPT
             !.pattern_data =
                PutSubPatterns(pd.pattern_data, category, subcategory, patterns2),
             !.current_position =
                [pd.current_position EXCEPT !.category = category,
                                            !.subcategory = subcategory,
                                            !.pattern_index = Len(patterns2),
                                            !.current_pattern = pattern]]
    IN IF ~HasCounter(pd.statistics, "total_patterns")
       THEN [ret |-> NoKey, saved |-> FALSE, progress_data |-> positioned]
       ELSE IF ~HasCounter(pd.statistics, "total_urls")
       THEN [ret |-> NoKey, saved |-> FALSE,
             progress_data |->
                [positioned EXCEPT
                 !.statistics = [pd.statistics EXCEPT !.total_patterns = @ + 1]]]
       ELSE [ret |-> pattern_key, saved |-> TRUE,
             progress_data |->
                [positioned EXCEPT
                 !.statistics =
                    [pd.statistics EXCEPT !.total_patterns = @ + 1,
                                          !.total_urls = @ + Len(urls)]]]

\* the lookup of an unknown pattern, with a variant that creates the category
\* and subcategory entries on the way (setdefault instead of get)
NotFound_creates(pd, category, subcategory, pattern_key) ==
    [ret |-> FALSE, saved |-> FALSE,
     progress_data |->
        [pd EXCEPT !.pattern_data =
            PutSubPatterns(@, category, subcategory,
                           SubPatterns(pd, category, subcategory))]]

\* pattern_data.get(category, {}).get(subcategory, {}).get(pattern_key) is None:
\* the call logs, returns False and has touched nothing
NotFound(pd, category, subcategory, pattern_key) ==
    [ret |-> FALSE, saved |-> FALSE, progress_data |-> pd]

\* pending.remove(url); downloaded.append(url)
MoveToDownloaded(data, url) ==
    [data EXCEPT !.urls.pending = ListRemove(@, url),
                 !.urls.downloaded = Append(@, url)]

\* len(pattern_data['urls']['downloaded']) >= 2
ThresholdReached(data) == Len(data.urls.downloaded) >= DownloadThreshold

\* the branch with a variant that does not count the download that reaches
\* the threshold
CompletePattern_uncounted(pd, category, subcategory, pattern_key, data) ==
    [pd EXCEPT
     !.pattern_data =
        PutSubPatterns(pd.pattern_data, category, subcategory,
            DictPut(SubPatterns(pd, category, subcategory), pattern_key,
                    [data EXCEPT !.status = "completed"])),
     !.statistics = [pd.statistics EXCEPT !.completed_patterns = @ + 1],
     !.current_position = [pd.current_position EXCEPT !.pattern_index = @ + 1,
                                                      !.current_pattern = None]]

\* the branch taken when a URL has left pending and the threshold is reached
CompletePattern(pd, category, subcategory, pattern_key, data) ==
    [pd EXCEPT
     !.pattern_data =
        PutSubPatterns(pd.pattern_data, category, subcategory,
            DictPut(SubPatterns(pd, category, subcategory), pattern_key,
                    [data EXCEPT !.status = "completed"])),
     !.statistics = [pd.statistics EXCEPT !.downloaded_urls = @ + 1,
                                          !.completed_patterns = @ + 1],
     !.current_position = [pd.current_position EXCEPT !.pattern_index = @ + 1,
                                                      !.current_pattern = None]]

\* the else of the threshold test: the URL that has just been downloaded is
\* appended to failed unless it is there already
BelowThreshold(pd, category, subcategory, pattern_key, data, url) ==
    LET newfail == url \notin Range(data.urls.failed)
        data2 == IF newfail THEN [data EXCEPT !.urls.failed = Append(@, url)]
                 ELSE data
    IN [pd EXCEPT
        !.pattern_data =
           PutSubPatterns(pd.pattern_data, category, subcategory,
               DictPut(SubPatterns(pd, category, subcategory), pattern_key, data2)),
        !.statistics =
           [pd.statistics EXCEPT
               !.downloaded_urls = @ + 1,
               !.failed_urls = IF newfail THEN @ + 1 ELSE @]]

\* update_pattern_progress, up to the save; "saved" tells whether the call
\* reaches save_progress.  With success = False no branch of the code runs:
\* the else that records a failure belongs to the threshold test.
update_pattern_progress(pd, category, subcategory, pattern_key, url, success) ==
    IF ~(Truthy(category) /\ Truthy(subcategory) /\ NonEmpty(pattern_key) /\ Truthy(url))
    THEN [ret |-> FALSE, saved |-> FALSE, progress_data |-> pd]
    ELSE IF ~DictHas(SubPatterns(pd, category, subcategory), pattern_key)
    THEN NotFound(pd, category, subcategory, pattern_key)
    ELSE
    LET data == DictGet(SubPatterns(pd, category, subcategory), pattern_key)
    IN IF success /\ url \in Range(data.urls.pending)
       THEN LET moved == MoveToDownloaded(data, url)
            IN [ret |-> TRUE, saved |-> TRUE,
                progress_data |->
                    IF ThresholdReached(moved)
                    THEN CompletePattern(pd, category, subcategory, pattern_key, moved)
                    ELSE BelowThreshold(pd, category, subcategory, pattern_key,
                                        moved, url)]
       ELSE [ret |-> TRUE, saved |-> TRUE, progress_data |-> pd]

\* every pattern, in the order of the three nested loops over the dicts
ScanOrder(pattern_data) ==
    Concat([i \in 1..Len(pattern_data) |->
        Concat([j \in 1..Len(pattern_data[i].v) |->
            [n \in 1..Len(pattern_data[i].v[j].v) |->
                [category |-> pattern_data[i].k,
                 subcategory |-> pattern_data[i].v[j].k,
                 pattern_key |-> pattern_data[i].v[j].v[n].k,
                 data |-> pattern_data[i].v[j].v[n].v]]])])

\* the loops with a variant that keeps the last match instead of returning
LastHit(hits) == CHOOSE i \in hits : \A j \in hits : i >= j

\* the loops with a variant that goes on from the match of the call before
\* (a scan that keeps its place between two calls)
FirstHit_continued(hits) ==
    IF pt_ret.op = "get_resume_point"
    THEN CHOOSE i \in hits : \A j \in hits : i >= j
    ELSE CHOOSE i \in hits : \A j \in hits : i <= j

\* the loops return at the first pattern that matches
FirstHit(hits) == CHOOSE i \in hits : \A j \in hits : i <= j

\* the 'new_pattern' decision with a variant that restarts the index at 0
NewPatternDecision_reset(pd) ==
    [status |-> "new_pattern",
     category |-> pd.current_position.category,
     subcategory |-> pd.current_position.subcategory,
     pattern_index |-> 0]

\* the 'new_pattern' decision: the current_position cursor
NewPatternDecision(pd) ==
    [status |-> "new_pattern",
     category |-> pd.current_position.category,
     subcategory |-> pd.current_position.subcategory,
     pattern_index |-> pd.current_position.pattern_index]

\* get_resume_point
get_resume_point(pd) ==
    LET scan == ScanOrder(pd.pattern_data)
        hits == {i \in 1..Len(scan) :
                    scan[i].data.status = "in_progress"
                    /\ scan[i].data.urls.pending /= <<>>}
    IN IF hits /= {}
       THEN LET h == scan[FirstHit(hits)]
            IN [status |-> "resume",
                category |-> h.category,
                subcategory |-> h.subcategory,
                pattern_key |-> h.pattern_key,
                pattern |-> h.data.pattern,
                pending_urls |-> h.data.urls.pending,
                total_pending |-> Len(h.data.urls.pending),
                total_downloaded |-> Len(h.data.urls.downloaded)]
       ELSE NewPatternDecision(pd)

----------------------------------------------------------------------------
(* ProgressTracker: inputs *)

\* the most patterns a run creates
MaxPatterns == 2

Categories == {"HEALTH_INSURANCE", "AUTO_INSURANCE"}
Subcategories == {"Dental_Insurance", "Vision_Insurance"}
PatternTexts == {"dental insurance"}
Urls == {"u1", "u2"}

\* the URL lists a search hands to initialize_pattern_tracking
UrlLists == {<<"u1">>, <<"u1", "u2", "u1">>}

PatternKeys == {PatternKey(n) : n \in 1..MaxPatterns}

\* the (category, subcategory, pattern_key) triple names a pattern of the store
KnownPattern(pd, category, subcategory, pattern_key) ==
    /\ DictHas(pd.pattern_data, category)
    /\ DictHas(DictGet(pd.pattern_data, category), subcategory)
    /\ DictHas(DictGet(DictGet(pd.pattern_data, category), subcategory), pattern_key)

\* a call that names a pattern the store does not have returns before it
\* reads url and success: such calls are made with one URL and one outcome
ProbeUrl == "u1"

PatternCount == Len(ScanOrder(progress_data.pattern_data))

\* no tracker has asked since the progress file was last written
Unseen == [seen |-> FALSE]

\* resume_seen once the progress file is file2: forgotten when the file changes
SeenAfter(file2) == IF file2 = progress_file THEN resume_seen ELSE Unseen

\* the last call built a tracker that has loaded the progress file
JustLoaded(r) == r.op \in {"load_progress", "crash_in_save"} /\ ~r.failed

PtInit ==
    /\ progress_data = InitialProgressData
    /\ progress_file = NoFile
    /\ pt_ret = [op |-> "init"]
    /\ resume_seen = Unseen

InitializePatternTracking(ios) ==
    /\ PatternCount < MaxPatterns
    /\ \E category \in Categories, subcategory \in Subcategories,
          pattern \in PatternTexts, urls \in UrlLists, io \in ios :
        LET r == initialize_pattern_tracking(progress_data, category, subcategory,
                                             pattern, urls)
        IN /\ progress_data' = r.progress_data
           /\ progress_file' = IF r.saved
                               THEN save_progress(r.progress_data, progress_file, io)
                               ELSE progress_file
           /\ pt_ret' = [op |-> "initialize_pattern_tracking",
                         category |-> category, subcategory |-> subcategory,
                         pattern |-> pattern, urls |-> urls, ret |-> r.ret]
           /\ resume_seen' = SeenAfter(progress_file')
           /\ UNCHANGED <<url_vars, sm_vars>>

UpdatePatternProgress(ios) ==
    \E category \in Categories, subcategory \in Subcategories,
       pattern_key \in PatternKeys \cup {NoKey}, url \in Urls \cup {""},
       success \in BOOLEAN, io \in ios :
        LET r == update_pattern_progress(progress_data, category, subcategory,
                                         pattern_key, url, success)
        IN /\ KnownPattern(progress_data, category, subcategory, pattern_key)
              \/ (url = ProbeUrl /\ success)
           /\ progress_data' = r.progress_data
           /\ progress_file' = IF r.saved
                               THEN save_progress(r.progress_data, progress_file, io)
                               ELSE progress_file
           /\ pt_ret' = [op |-> "update_pattern_progress",
                         category |-> category, subcategory |-> subcategory,
                         pattern_key |-> pattern_key, url |-> url,
                         success |-> success, ret |-> r.ret]
           /\ resume_seen' = SeenAfter(progress_file')
           /\ UNCHANGED <<url_vars, sm_vars>>

GetResumePoint ==
    /\ pt_ret' = [op |-> "get_resume_point", ret |-> get_resume_point(progress_data)]
    /\ resume_seen' = IF JustLoaded(pt_ret)
                      THEN [seen |-> TRUE, ret |-> get_resume_point(progress_data),
                            again |-> resume_seen.seen]
                      ELSE resume_seen
    /\ UNCHANGED <<progress_data, progress_file>>
    /\ UNCHANGED <<url_vars, sm_vars>>

\* no dedup log and a manager that has loaded nothing
UrlEmpty ==
    /\ processed_urls_file = NoFile
    /\ processed_urls = {}
    /\ category_urls = <<>>
    /\ url_ret = [op |-> "init"]
    /\ added = {}

UrlIdle == UrlEmpty /\ SearchIdle

Init == PtInit /\ UrlIdle

Next ==
    \/ InitializePatternTracking({"ok"})
    \/ UpdatePatternProgress({"ok"})
    \/ GetResumePoint

\* the work hierarchy store, with every write of the progress file succeeding
Spec == Init /\ [][Next]_vars

----------------------------------------------------------------------------
(* ProgressTracker: the disk that fails, the process that dies and restarts *)

\* what open and json.dump can do in save_progress
IoOutcomes == {"ok", "open_fails", "write_fails"}

\* a new ProgressTracker is constructed on the log directory: __init__ builds
\* the defaults and calls load_progress
LoadProgress(reads) ==
    \E readable \in reads :
        LET r == load_progress(InitialProgressData, progress_file, readable)
        IN /\ progress_data' = r.progress_data
           /\ pt_ret' = [op |-> "load_progress", failed |-> r.failed]
           /\ UNCHANGED <<progress_file, resume_seen>>
           /\ UNCHANGED <<url_vars, sm_vars>>

\* the process dies in the save_progress that was to write the store pd2, and
\* the next run constructs its tracker on what the file is then
CrashInSave(pd2) ==
    \E point \in CrashPoints :
        LET file2 == save_progress_crash(pd2, progress_file, point)
            r == load_progress(InitialProgressData, file2, TRUE)
        IN /\ progress_file' = file2
           /\ progress_data' = r.progress_data
           /\ pt_ret' = [op |-> "crash_in_save", failed |-> r.failed,
                         snapshot |-> JsonText(json_dump(pd2))]
           /\ resume_seen' = SeenAfter(file2)
           /\ UNCHANGED <<url_vars, sm_vars>>

\* the most patterns a run creates on the disk that fails
MaxDiskPatterns == 1

\* initialize_pattern_tracking on the disk that fails
DiskInitialize ==
    /\ PatternCount < MaxDiskPatterns
    /\ InitializePatternTracking(IoOutcomes)

\* the process dies in the save of initialize_pattern_tracking
CrashInInitialize ==
    /\ PatternCount < MaxDiskPatterns
    /\ \E category \in Categories, subcategory \in Subcategories,
          pattern \in PatternTexts, urls \in UrlLists :
        CrashInSave(initialize_pattern_tracking(progress_data, category, subcategory,
                                                pattern, urls).progress_data)

\* the process dies in the save of update_pattern_progress
CrashInUpdate ==
    \E category \in Categories, subcategory \in Subcategories,
       pattern_key \in PatternKeys, url \in Urls, success \in BOOLEAN :
        LET r == update_pattern_progress(progress_data, category, subcategory,
                                         pattern_key, url, success)
        IN r.saved /\ CrashInSave(r.progress_data)

DiskNext ==
    \/ DiskInitialize
    \/ UpdatePatternProgress(IoOutcomes)
    \/ GetResumePoint
    \/ LoadProgress(BOOLEAN)
    \/ CrashInInitialize
    \/ CrashInUpdate

\* the work hierarchy store on a disk that can fail, across runs
SpecDisk == Init /\ [][DiskNext]_vars

ReloadNext ==
    \/ InitializePatternTracking({"ok"})
    \/ UpdatePatternProgress({"ok"})
    \/ GetResumePoint
    \/ LoadProgress({TRUE})

\* the work hierarchy store across runs, every write and every read succeeding
SpecReload == Init /\ [][ReloadNext]_vars

----------------------------------------------------------------------------
(* Reading the store, for the properties below *)

\* every pattern of the store
AllPatterns == ScanOrder(progress_data.pattern_data)

\* pattern_data[category][subcategory][pattern_key] of a known pattern
PatternAt(pd, category, subcategory, pattern_key) ==
    DictGet(DictGet(DictGet(pd.pattern_data, category), subcategory), pattern_key)

\* the URLs a pattern holds, in any of its three lists
UrlUnion(data) ==
    Range(data.urls.pending) \cup Range(data.urls.downloaded)
        \cup Range(data.urls.failed)

\* the place of a known pattern in the scan: the position of its category in
\* pattern_data, of its subcategory in the category, and the number of its key
ScanPlace(pd, category, subcategory, pattern_key) ==
    <<DictIdx(pd.pattern_data, category),
      DictIdx(DictGet(pd.pattern_data, category), subcategory),
      pattern_key[2]>>

\* place a comes before place b
Before(a, b) ==
    \/ a[1] < b[1]
    \/ a[1] = b[1] /\ a[2] < b[2]
    \/ a[1] = b[1] /\ a[2] = b[2] /\ a[3] < b[3]

\* a pattern get_resume_point is to resume: in progress, with pending URLs
Resumable(data) == data.status = "in_progress" /\ data.urls.pending /= <<>>

\* the last call was update_pattern_progress on a pattern of the store, with a URL
UpdateOnKnown(r, pd) ==
    /\ r.op = "update_pattern_progress"
    /\ Truthy(r.url)
    /\ KnownPattern(pd, r.category, r.subcategory, r.pattern_key)

\* the first category and subcategory of INSURANCE_CATEGORIES
FirstCategory == "HEALTH_INSURANCE"
FirstSubcategory == "Medical_Insurance"

----------------------------------------------------------------------------
(* C2.  Set-partition invariant: in every reachable state, the pending,     *)
(* downloaded and failed lists of every pattern are pairwise disjoint.      *)
C2_SetPartition ==
    \A i \in 1..Len(AllPatterns) :
        LET u == AllPatterns[i].data.urls
        IN /\ Range(u.pending) \cap Range(u.downloaded) = {}
           /\ Range(u.pending) \cap Range(u.failed) = {}
           /\ Range(u.downloaded) \cap Range(u.failed) = {}

(* C3.  No URL is dropped: every call keeps every pattern of the store, and *)
(* the union of the pattern's three lists is the same before and after; a   *)
(* pattern that the call creates holds exactly the URLs it was given.       *)
C3_NoUrlDropped ==
    [][\A c \in Categories, s \in Subcategories, k \in PatternKeys :
          /\ KnownPattern(progress_data, c, s, k) =>
                /\ KnownPattern(progress_data', c, s, k)
                /\ UrlUnion(PatternAt(progress_data', c, s, k))
                       = UrlUnion(PatternAt(progress_data, c, s, k))
          /\ (~KnownPattern(progress_data, c, s, k)
              /\ KnownPattern(progress_data', c, s, k)) =>
                /\ pt_ret'.op = "initialize_pattern_tracking"
                /\ UrlUnion(PatternAt(progress_data', c, s, k)) = Range(pt_ret'.urls)
      ]_vars

\* an outcome has just been recorded on a pattern that has URLs left and URLs done
C3_Witness ==
    /\ UpdateOnKnown(pt_ret, progress_data)
    /\ pt_ret.success
    /\ LET d == PatternAt(progress_data, pt_ret.category, pt_ret.subcategory,
                          pt_ret.pattern_key)
       IN /\ Len(d.urls.downloaded) >= 2
          /\ d.urls.pending /= <<>>
          /\ Cardinality(UrlUnion(d)) = 2

(* C4.  Recording a failed outcome on a known pattern: when                 *)
(* update_pattern_progress(category, subcategory, pattern_key, url, False)  *)
(* has returned, url is not in pending and is in failed.                    *)
C4_FailureRecorded ==
    (UpdateOnKnown(pt_ret, progress_data) /\ ~pt_ret.success) =>
        LET d == PatternAt(progress_data, pt_ret.category, pt_ret.subcategory,
                           pt_ret.pattern_key)
        IN /\ pt_ret.url \notin Range(d.urls.pending)
           /\ pt_ret.url \in Range(d.urls.failed)

(* C5.  Recording a successful outcome on a known pattern, for a URL that   *)
(* was in pending or in failed: when the call has returned, the URL is in   *)
(* downloaded, in neither pending nor failed, and statistics.downloaded_urls *)
(* is one more than before.                                                 *)
C5_SuccessRecorded ==
    [][(/\ UpdateOnKnown(pt_ret', progress_data)
        /\ pt_ret'.success
        /\ LET d == PatternAt(progress_data, pt_ret'.category, pt_ret'.subcategory,
                              pt_ret'.pattern_key)
           IN pt_ret'.url \in Range(d.urls.pending) \cup Range(d.urls.failed))
       =>
       (LET d == PatternAt(progress_data', pt_ret'.category, pt_ret'.subcategory,
                           pt_ret'.pattern_key)
        IN /\ pt_ret'.url \in Range(d.urls.downloaded)
           /\ pt_ret'.url \notin Range(d.urls.pending)
           /\ pt_ret'.url \notin Range(d.urls.failed)
           /\ progress_data'.statistics.downloaded_urls
                  = progress_data.statistics.downloaded_urls + 1)
      ]_vars

(* C6.  update_pattern_progress on a (category, subcategory, pattern_key)   *)
(* that names no pattern of the store returns False and leaves the store    *)
(* (pattern_data, statistics, current_position) and the progress file as    *)
(* they were: no category, subcategory or pattern entry appears.            *)
C6_UnknownPatternNoOp ==
    [][(/\ pt_ret'.op = "update_pattern_progress"
        /\ ~KnownPattern(progress_data, pt_ret'.category, pt_ret'.subcategory,
                         pt_ret'.pattern_key))
       =>
       (/\ pt_ret'.ret = FALSE
        /\ progress_data' = progress_data
        /\ progress_file' = progress_file)
      ]_vars

\* a call has named a subcategory the store does not have, under a category it has
C6_Witness ==
    /\ pt_ret.op = "update_pattern_progress"
    /\ pt_ret.ret = FALSE
    /\ DictHas(progress_data.pattern_data, pt_ret.category)
    /\ ~DictHas(DictGet(progress_data.pattern_data, pt_ret.category),
                pt_ret.subcategory)
    /\ pt_ret.pattern_key /= NoKey

(* C7.  initialize_pattern_tracking(category, subcategory, pattern, urls)   *)
(* returns the key of a pattern that did not exist, whose pending is urls,  *)
(* whose downloaded and failed are empty and whose status is in_progress;   *)
(* the store has exactly one pattern more, total_patterns is one more and   *)
(* total_urls is len(urls) more, and every pattern that existed is as it    *)
(* was.                                                                     *)
C7_InitPatternPostState ==
    [][pt_ret'.op = "initialize_pattern_tracking" =>
        LET r == pt_ret'
        IN /\ ~KnownPattern(progress_data, r.category, r.subcategory, r.ret)
           /\ KnownPattern(progress_data', r.category, r.subcategory, r.ret)
           /\ LET d == PatternAt(progress_data', r.category, r.subcategory, r.ret)
              IN /\ d.pattern = r.pattern
                 /\ d.status = "in_progress"
                 /\ d.urls.pending = r.urls
                 /\ d.urls.downloaded = <<>>
                 /\ d.urls.failed = <<>>
           /\ Len(ScanOrder(progress_data'.pattern_data))
                  = Len(ScanOrder(progress_data.pattern_data)) + 1
           /\ progress_data'.statistics.total_patterns
                  = progress_data.statistics.total_patterns + 1
           /\ progress_data'.statistics.total_urls
                  = progress_data.statistics.total_urls + Len(r.urls)
           /\ \A c \in Categories, s \in Subcategories, k \in PatternKeys :
                 KnownPattern(progress_data, c, s, k) =>
                    /\ KnownPattern(progress_data', c, s, k)
                    /\ PatternAt(progress_data', c, s, k)
                           = PatternAt(progress_data, c, s, k)
      ]_vars

\* a second pattern has just been created in a subcategory that had one
C7_Witness ==
    /\ pt_ret.op = "initialize_pattern_tracking"
    /\ pt_ret.ret = PatternKey(2)
    /\ Len(pt_ret.urls) = 3
    /\ PatternAt(progress_data, pt_ret.category, pt_ret.subcategory,
                 PatternKey(1)).urls.downloaded /= <<>>

(* C8.  Pattern completion predicate: after every update_pattern_progress   *)
(* call, a pattern's status is completed if and only if its pending list is *)
(* empty or its downloaded count has reached the download threshold.        *)
C8_CompletionPredicate ==
    pt_ret.op = "update_pattern_progress" =>
        \A i \in 1..Len(AllPatterns) :
            LET d == AllPatterns[i].data
            IN d.status = "completed"
               <=> (d.urls.pending = <<>>
                    \/ Len(d.urls.downloaded) >= DownloadThreshold)

(* C9.  get_resume_point returns a 'resume' decision if and only if some    *)
(* pattern is in progress with pending URLs; the decision then names such a *)
(* pattern, no such pattern comes before it in scan order (category         *)
(* insertion order, subcategory insertion order, pattern key number), and   *)
(* its pending_urls are that pattern's pending list.                        *)
C9_ResumeDecision ==
    pt_ret.op = "get_resume_point" =>
        LET r == pt_ret.ret
            pd == progress_data
            resumable == {t \in Categories \X Subcategories \X PatternKeys :
                            /\ KnownPattern(pd, t[1], t[2], t[3])
                            /\ Resumable(PatternAt(pd, t[1], t[2], t[3]))}
        IN /\ r.status = "resume" <=> resumable /= {}
           /\ r.status = "resume" =>
                /\ <<r.category, r.subcategory, r.pattern_key>> \in resumable
                /\ r.pending_urls
                       = PatternAt(pd, r.category, r.subcategory,
                                   r.pattern_key).urls.pending
                /\ \A t \in resumable :
                      ~Before(ScanPlace(pd, t[1], t[2], t[3]),
                              ScanPlace(pd, r.category, r.subcategory, r.pattern_key))

\* a resume decision that had to choose: two resumable patterns in two
\* categories, and the decision names the one of the first category
C9_Witness ==
    /\ pt_ret.op = "get_resume_point"
    /\ pt_ret.ret.status = "resume"
    /\ Len(progress_data.pattern_data) = 2
    /\ Len(AllPatterns) = 2
    /\ Resumable(AllPatterns[1].data)
    /\ Resumable(AllPatterns[2].data)
    /\ pt_ret.ret.category = progress_data.pattern_data[1].k
    /\ pt_ret.ret.pending_urls /= AllPatterns[2].data.urls.pending

(* C10 as stated.  With no resumable pattern, get_resume_point returns a    *)
(* 'new_pattern' decision that carries the current_position cursor, and the *)
(* first category and subcategory when no cursor has been recorded.         *)
C10_DefaultsToFirstCategory ==
    (pt_ret.op = "get_resume_point" /\ pt_ret.ret.status = "new_pattern") =>
        LET r == pt_ret.ret
            cur == progress_data.current_position
        IN IF cur.category = None
           THEN r.category = FirstCategory /\ r.subcategory = FirstSubcategory
           ELSE /\ r.category = cur.category
                /\ r.subcategory = cur.subcategory
                /\ r.pattern_index = cur.pattern_index

(* C10 as amended.  With no resumable pattern, get_resume_point returns a   *)
(* 'new_pattern' decision that carries the current_position cursor          *)
(* (category, subcategory, pattern_index); when no cursor has been recorded *)
(* that is the cursor of a new tracker: no category, no subcategory and     *)
(* pattern_index 0.                                                         *)
C10_NewPatternDecision ==
    pt_ret.op = "get_resume_point" =>
        LET r == pt_ret.ret
            cur == progress_data.current_position
        IN /\ (\A i \in 1..Len(AllPatterns) : ~Resumable(AllPatterns[i].data))
                => r.status = "new_pattern"
           /\ r.status = "new_pattern" =>
                /\ r.category = cur.category
                /\ r.subcategory = cur.subcategory
                /\ r.pattern_index = cur.pattern_index
                /\ progress_data.pattern_data = <<>> =>
                      /\ r.category = None
                      /\ r.subcategory = None
                      /\ r.pattern_index = 0

\* a new_pattern decision after a pattern has been completed: the cursor has moved
C10_Witness ==
    /\ pt_ret.op = "get_resume_point"
    /\ pt_ret.ret.status = "new_pattern"
    /\ pt_ret.ret.category \in Categories
    /\ pt_ret.ret.pattern_index >= 2

----------------------------------------------------------------------------
(* Reading the disk, for the properties below *)

\* the last call was a mutating call that reported success
ReportedSuccess(r) ==
    \/ r.op = "initialize_pattern_tracking" /\ r.ret /= NoKey
    \/ r.op = "update_pattern_progress" /\ r.ret = TRUE

\* the last call was a mutating call that reported failure
ReportedFailure(r) ==
    \/ r.op = "initialize_pattern_tracking" /\ r.ret = NoKey
    \/ r.op = "update_pattern_progress" /\ r.ret = FALSE

\* the progress file is the whole snapshot of the store pd
OnDisk(file, pd) == file = JsonText(json_dump(pd))

(* C11.  When the progress file exists and could not be read at load time   *)
(* (open or json.load raised), the get_resume_point that follows returns    *)
(* the 'error' decision.                                                    *)
C11_LoadErrorSurfaced ==
    [][(/\ pt_ret.op \in {"load_progress", "crash_in_save"}
        /\ pt_ret.failed
        /\ pt_ret'.op = "get_resume_point")
       => pt_ret'.ret.status = "error"
      ]_vars

C14_CrashAtomicSnapshot ==
    [][pt_ret'.op = "crash_in_save" =>
        \/ progress_file' = progress_file
        \/ progress_file' = pt_ret'.snapshot
      ]_vars

(* C16.  Persist after every mutation: when initialize_pattern_tracking or  *)
(* update_pattern_progress has returned success, the progress file is a     *)
(* whole document and a tracker constructed on it recovers the store as it  *)
(* is in memory.                                                            *)
C16_PersistAfterMutation ==
    ReportedSuccess(pt_ret) =>
        /\ progress_file /= NoFile
        /\ Parses(progress_file)
        /\ load_progress(InitialProgressData, progress_file, TRUE).progress_data
               = progress_data

(* C17.  A failed write of the snapshot is surfaced: when                   *)
(* initialize_pattern_tracking or update_pattern_progress returns and the   *)
(* progress file is not the snapshot of the store, the call has reported    *)
(* failure (None or False).                                                 *)
C17_WriteFailureSurfaced ==
    [][(/\ pt_ret'.op \in {"initialize_pattern_tracking", "update_pattern_progress"}
        /\ ~OnDisk(progress_file', progress_data'))
       => ReportedFailure(pt_ret')
      ]_vars

----------------------------------------------------------------------------
(* ProcessedURLManager: inputs *)

UrlCategories == {<<>>, <<"a">>, <<"b">>}
UrlSubcategories == {<<>>, <<"x">>, <<"y">>}
UrlStrings == {<<>>, <<"q">>, <<"P", "1">>, <<"P", "2">>}

\* the log a manager may find when it is constructed
InitFiles ==
    {NoFile,
     <<>>,
     FormatRecord(<<"a">>, <<"x">>, <<"P", "1">>),
     <<"a", "x", "NL">> \o FormatRecord(<<"b">>, <<"y">>, <<"P", "2">>),
     FormatRecord(<<"a">>, <<"x">>, <<"q">>) \o <<"a", "|", "x">>}

UrlInit ==
    /\ processed_urls_file \in InitFiles
    /\ processed_urls = load_processed_urls(processed_urls_file).processed_urls
    /\ category_urls = load_processed_urls(processed_urls_file).category_urls
    /\ url_ret = [op |-> "init"]
    /\ added = {}
    /\ SearchIdle

AddUrl ==
    \E category \in UrlCategories, subcategory \in UrlSubcategories,
       url \in UrlStrings, io_ok \in BOOLEAN :
        LET r == add_url(processed_urls, category_urls, processed_urls_file,
                         category, subcategory, url, io_ok)
        IN /\ processed_urls' = r.processed_urls
           /\ category_urls' = r.category_urls
           /\ processed_urls_file' = r.file
           /\ url_ret' = [op |-> "add_url", category |-> category,
                          subcategory |-> subcategory, url |-> url, ret |-> r.ret]
           /\ added' = IF r.ret THEN added \cup {url} ELSE added
           /\ UNCHANGED <<pt_vars, sm_vars>>

IsProcessed ==
    \E url \in UrlStrings :
        /\ url_ret' = [op |-> "is_processed", url |-> url,
                       ret |-> is_processed(processed_urls, url)]
        /\ UNCHANGED <<processed_urls, category_urls, processed_urls_file, added>>
        /\ UNCHANGED <<pt_vars, sm_vars>>

GetStats ==
    /\ url_ret' = [op |-> "get_stats", ret |-> get_stats(processed_urls, category_urls)]
    /\ UNCHANGED <<processed_urls, category_urls, processed_urls_file, added>>
    /\ UNCHANGED <<pt_vars, sm_vars>>

GetCategoryUrls ==
    \E category \in UrlCategories, subcategory \in UrlSubcategories :
        /\ url_ret' = [op |-> "get_category_urls", category |-> category,
                       subcategory |-> subcategory,
                       ret |-> get_category_urls(category_urls, category, subcategory)]
        /\ UNCHANGED <<processed_urls, category_urls, processed_urls_file, added>>
        /\ UNCHANGED <<pt_vars, sm_vars>>

UrlNext == AddUrl \/ IsProcessed \/ GetStats \/ GetCategoryUrls

\* the process dies in an add_url that had passed its checks, and the next run
\* constructs its manager on the log that is left
CrashInAddUrl ==
    \E category \in UrlCategories, subcategory \in UrlSubcategories,
       url \in UrlStrings, point \in AddUrlCrashPoints :
        LET c == add_url_crash(processed_urls_file, category, subcategory, url, point)
            m == load_processed_urls(c.file)
        IN /\ NonEmpty(category) /\ NonEmpty(subcategory) /\ NonEmpty(url)
           /\ StartsWithPrefix(url)
           /\ url \notin processed_urls
           /\ processed_urls_file' = c.file
           /\ processed_urls' = m.processed_urls
           /\ category_urls' = m.category_urls
           /\ url_ret' = [op |-> "crash_in_add_url", category |-> category,
                          subcategory |-> subcategory, url |-> url, temp |-> c.temp]
           /\ added' = {}
           /\ UNCHANGED <<pt_vars, sm_vars>>

UrlCrashNext == AddUrl \/ IsProcessed \/ CrashInAddUrl

\* the dedup index alone
InitUrl == UrlInit /\ PtInit

SpecUrl == InitUrl /\ [][UrlNext]_vars

\* the dedup index across runs that die in add_url
SpecUrlCrash == InitUrl /\ [][UrlCrashNext]_vars

----------------------------------------------------------------------------
(* C1.  Dedup invariant: every URL for which add_url has returned True is   *)
(* reported by is_processed, in the state the call returns in and in every  *)
(* later state of the manager, whatever calls follow.                       *)
C1_DedupInvariant ==
    /\ \A u \in added : is_processed(processed_urls, u)
    /\ (url_ret.op = "add_url" /\ url_ret.ret) => url_ret.url \in added

\* a successful add_url followed by other calls
C1_Witness ==
    /\ added /= {}
    /\ url_ret.op = "get_stats"
    /\ Cardinality(processed_urls) >= 2

----------------------------------------------------------------------------
(* Reading the log, for the properties below *)

\* the text of a log, nothing when there is no file
LogText(file) == IF file = NoFile THEN <<>> ELSE file

\* the line 'category|subcategory|url' of a call, with its newline
LineOf(r) == r.category \o <<"|">> \o r.subcategory \o <<"|">> \o r.url \o <<"NL">>

\* the call had arguments that pass the checks of add_url
ValidCall(r) ==
    /\ r.category /= <<>> /\ r.subcategory /= <<>> /\ r.url /= <<>>
    /\ r.url[1] = "P"

\* no bucket of the index holds the URL
InNoBucket(cu, url) ==
    \A c \in DOMAIN cu : \A sc \in DOMAIN cu[c] : url \notin cu[c][sc]

(* C15.  Append-only, crash-atomic log: every successful add_url leaves the *)
(* log equal to its previous content followed by the one line               *)
(* 'category|subcategory|url'; a death of the process inside add_url leaves *)
(* the log as it was or as it was plus that whole line; and no step at all  *)
(* changes the log in another way, so no earlier text is lost or altered.   *)
C15_AppendOnlyLog ==
    [][/\ (url_ret'.op = "add_url" /\ url_ret'.ret) =>
              processed_urls_file' = LogText(processed_urls_file) \o LineOf(url_ret')
       /\ url_ret'.op = "crash_in_add_url" =>
              \/ processed_urls_file' = processed_urls_file
              \/ processed_urls_file'
                     = LogText(processed_urls_file) \o LineOf(url_ret')
       /\ url_ret'.op \notin {"add_url", "crash_in_add_url"} =>
              processed_urls_file' = processed_urls_file
       /\ (url_ret'.op = "add_url" /\ ~url_ret'.ret) =>
              processed_urls_file' = processed_urls_file
      ]_vars

\* the process has died with the temporary file complete and the log, of two
\* lines already, not yet replaced
C15_Witness ==
    /\ url_ret.op = "crash_in_add_url"
    /\ processed_urls_file /= NoFile
    /\ url_ret.temp = processed_urls_file \o LineOf(url_ret)
    /\ Cardinality(processed_urls) = 1
    /\ Cardinality({i \in 1..Len(processed_urls_file) :
                        processed_urls_file[i] = "NL"}) = 2

(* C18.  A failed write in add_url is reported and leaves no trace: for     *)
(* arguments that pass the checks and a URL that is not in the index, a     *)
(* call after which the log is not the previous log plus the line of the    *)
(* call has returned False, and a call that has returned False has left     *)
(* processed_urls, category_urls and the log as they were, the URL being in *)
(* neither.                                                                 *)
C18_FailedWriteNoTrace ==
    [][(/\ url_ret'.op = "add_url"
        /\ ValidCall(url_ret')
        /\ url_ret'.url \notin processed_urls)
       =>
       (/\ processed_urls_file' /= LogText(processed_urls_file) \o LineOf(url_ret')
              => url_ret'.ret = FALSE
        /\ url_ret'.ret = FALSE =>
              /\ processed_urls' = processed_urls
              /\ category_urls' = category_urls
              /\ processed_urls_file' = processed_urls_file
              /\ url_ret'.url \notin processed_urls'
              /\ InNoBucket(category_urls', url_ret'.url))
      ]_vars

\* a write has failed on a manager that had added a URL before
C18_Witness ==
    /\ url_ret.op = "add_url"
    /\ ValidCall(url_ret)
    /\ url_ret.ret = FALSE
    /\ url_ret.url \notin processed_urls
    /\ added /= {}

(* C20.  add_url for a URL that is in the index returns False and changes   *)
(* nothing: processed_urls, every bucket of category_urls (the bucket of    *)
(* the category and subcategory of the call included) and the log are as    *)
(* they were.                                                               *)
C20_DuplicateNoOp ==
    [][(url_ret'.op = "add_url" /\ url_ret'.url \in processed_urls)
       =>
       (/\ url_ret'.ret = FALSE
        /\ processed_urls' = processed_urls
        /\ category_urls' = category_urls
        /\ processed_urls_file' = processed_urls_file)
      ]_vars

\* a known URL has been offered under a category and subcategory it is not
\* filed under
C20_Witness ==
    /\ url_ret.op = "add_url"
    /\ ValidCall(url_ret)
    /\ url_ret.ret = FALSE
    /\ url_ret.url \in processed_urls
    /\ url_ret.url \notin get_category_urls(category_urls, url_ret.category,
                                            url_ret.subcategory)

----------------------------------------------------------------------------
(* ProcessedURLManager: loading any log *)

\* the most lines a log has when it is loaded
MaxLines == 3

\* lines without their newline: two that are well formed, one of them between
\* blanks; no separator; two fields; four fields; a URL of another site; a URL
\* after a blank; nothing at all
LoadLineKinds ==
    {<<"a", "|", "x", "|", "P", "1">>,
     <<"SP", "b", "|", "y", "|", "P", "2", "SP">>,
     <<"a", "x">>,
     <<"a", "|", "x">>,
     <<"a", "|", "x", "|", "P", "1", "|", "b">>,
     <<"a", "|", "x", "|", "q">>,
     <<"a", "|", "x", "|", "SP", "P", "1">>,
     <<>>}

RECURSIVE JoinLines(_)
\* the lines, each followed by its newline
JoinLines(ls) ==
    IF ls = <<>> THEN <<>> ELSE Head(ls) \o <<"NL">> \o JoinLines(Tail(ls))

\* the logs of at most MaxLines lines, the last of them with or without its
\* newline, and no log
LoadFiles ==
    {NoFile}
    \cup {JoinLines(ls) : ls \in UNION {[1..n -> LoadLineKinds] : n \in 0..MaxLines}}
    \cup {JoinLines(SubSeq(ls, 1, Len(ls) - 1)) \o ls[Len(ls)] :
            ls \in UNION {[1..n -> LoadLineKinds] : n \in 1..MaxLines}}

\* a manager under construction: the empty structures of __init__, before the load
LoadInit ==
    /\ processed_urls_file \in LoadFiles
    /\ processed_urls = {}
    /\ category_urls = <<>>
    /\ url_ret = [op |-> "init"]
    /\ added = {}
    /\ SearchIdle

\* load_processed_urls, as __init__ calls it
LoadProcessedUrls ==
    /\ url_ret.op = "init"
    /\ LET m == load_processed_urls(processed_urls_file)
       IN /\ processed_urls' = m.processed_urls
          /\ category_urls' = m.category_urls
          /\ url_ret' = [op |-> "load_processed_urls",
                         invalid_lines |-> m.invalid_lines]
    /\ UNCHANGED <<processed_urls_file, added>>
    /\ UNCHANGED <<pt_vars, sm_vars>>

LoadNext == LoadProcessedUrls

InitLoad == LoadInit /\ PtInit

\* the load of the dedup log, over every log of a few lines
SpecLoad == InitLoad /\ [][LoadNext]_vars

\* where the lines of a text start: at its first character and after each
\* newline that is not its last character
LineStarts(text) ==
    {i \in 1..Len(text) : i = 1 \/ text[i - 1] = "NL"}

\* the line that starts at i, without its newline
LineAt(text, i) ==
    LET ends == {j \in i..Len(text) : text[j] = "NL"}
    IN IF ends = {} THEN SubSeq(text, i, Len(text))
       ELSE SubSeq(text, i, (CHOOSE j \in ends : \A h \in ends : j <= h) - 1)

\* the places of a line that hold a character other than a blank
Inked(line) == {i \in 1..Len(line) : line[i] \notin {"SP", "NL"}}

\* the places of the separators of a line
Bars(line) == {i \in 1..Len(line) : line[i] = "|"}

\* the third field of a line of three fields, up to the last inked character
ThirdField(line) ==
    LET last_bar == CHOOSE i \in Bars(line) : \A j \in Bars(line) : i >= j
        last_ink == CHOOSE i \in Inked(line) : \A j \in Inked(line) : i >= j
    IN SubSeq(line, last_bar + 1, last_ink)

\* a well-formed line: three fields between two separators, the third a URL
\* of the site
WellFormed(line) ==
    /\ Cardinality(Bars(line)) = 2
    /\ ThirdField(line) /= <<>>
    /\ ThirdField(line)[1] = "P"

(* C19.  Load tolerance: whatever mix of well-formed and malformed lines    *)
(* the log holds (no separator, wrong number of fields, a URL that fails    *)
(* the site check, a last line without newline), load_processed_urls marks  *)
(* as processed exactly the URLs of the well-formed lines and records one   *)
(* validation issue for each malformed line, under its line number.         *)
C19_LoadTolerance ==
    url_ret.op = "load_processed_urls" =>
        LET text == LogText(processed_urls_file)
            starts == LineStarts(text)
            number(i) == Cardinality({j \in starts : j <= i})
            good == {i \in starts : WellFormed(LineAt(text, i))}
            issues == url_ret.invalid_lines
        IN /\ processed_urls = {ThirdField(LineAt(text, i)) : i \in good}
           /\ Len(issues) = Cardinality(starts \ good)
           /\ \A i \in starts \ good :
                 Cardinality({n \in 1..Len(issues) : issues[n][1] = number(i)}) = 1
           /\ \A i \in good :
                 \A n \in 1..Len(issues) : issues[n][1] /= number(i)

\* a log of three lines has been loaded: one without separator, one well
\* formed between blanks, and a last one without its newline whose URL is of
\* another site
C19_Witness ==
    /\ url_ret.op = "load_processed_urls"
    /\ url_ret.invalid_lines
           = <<<<1, "Missing separator">>, <<3, "Invalid URL format">>>>
    /\ processed_urls = {<<"P", "2">>}
    /\ processed_urls_file[Len(processed_urls_file)] = "q"

----------------------------------------------------------------------------
(* ProcessedURLManager: the next run *)

\* ProcessedURLManager(): a new manager, with empty memory, loads the log
\* that the manager before it has left
RestartManager ==
    LET m == load_processed_urls(processed_urls_file)
    IN /\ processed_urls' = m.processed_urls
       /\ category_urls' = m.category_urls
       /\ url_ret' = [op |-> "restart", invalid_lines |-> m.invalid_lines]
       /\ added' = {}
       /\ UNCHANGED processed_urls_file
       /\ UNCHANGED <<pt_vars, sm_vars>>

\* a category may hold any character, the separator of the log included
AcceptedCategories == {<<"a">>, <<"a", "|", "b">>}

\* the runs stop adding to a log of this many lines
MaxLogLines == 3

LineCount(file) == Len(FileLines(LogText(file)))

\* add_url, with the categories above, on a log that is not yet full
AddUrlAccepted ==
    \E category \in AcceptedCategories, subcategory \in UrlSubcategories,
       url \in UrlStrings, io_ok \in BOOLEAN :
        LET r == add_url(processed_urls, category_urls, processed_urls_file,
                         category, subcategory, url, io_ok)
        IN /\ LineCount(processed_urls_file) < MaxLogLines
           /\ processed_urls' = r.processed_urls
           /\ category_urls' = r.category_urls
           /\ processed_urls_file' = r.file
           /\ url_ret' = [op |-> "add_url", category |-> category,
                          subcategory |-> subcategory, url |-> url, ret |-> r.ret]
           /\ added' = IF r.ret THEN added \cup {url} ELSE added
           /\ UNCHANGED <<pt_vars, sm_vars>>

UrlRestartNext == AddUrlAccepted \/ IsProcessed \/ RestartManager

\* the dedup index across runs that end between two calls
SpecUrlRestart == InitUrl /\ [][UrlRestartNext]_vars

\* the buckets of the index that hold the URL
BucketsOf(cu, url) ==
    {b \in UNION {{<<c, sc>> : sc \in DOMAIN cu[c]} : c \in DOMAIN cu} :
        url \in cu[b[1]][b[2]]}

(* C21.  Dedup survives restart: a new manager that loads the log reports   *)
(* is_processed true for every URL for which add_url had returned True in   *)
(* the manager before it, and holds it in the bucket of the category and    *)
(* subcategory it had been added under, whatever category and subcategory   *)
(* add_url had accepted.                                                    *)
C21_DedupSurvivesRestart ==
    [][url_ret'.op = "restart" =>
          \A u \in added :
              /\ is_processed(processed_urls', u)
              /\ BucketsOf(category_urls, u) \subseteq BucketsOf(category_urls', u)
      ]_vars

----------------------------------------------------------------------------
(* DownloadManager *)

\* what the site and the browser make of a download attempt: no download
\* directory (an exception before the page is opened), no title, no download
\* button, no modal, no file to verify, or a verified file
DownloadOutcomes ==
    {"no_directory", "no_title", "no_button", "no_modal", "not_verified", "verified"}

\* 'https://www.scribd.com/document/<n>', the URL the store calls u<n>
DocumentUrl(u) == IF u = "u1" THEN <<"P", "1">> ELSE <<"P", "2">>

\* the test with a variant that never finds the URL
AlreadyDownloaded_never(pu, url) == FALSE

\* if self.url_manager.is_processed(url): return False
AlreadyDownloaded(pu, url) == is_processed(pu, url)

\* download_document.  "navigated" tells whether driver.get(url) has been
\* called, "at" where the call has returned.  After a verified file add_url
\* is called and its result dropped; the call of add_download_record that
\* follows passes category= and subcategory= to a method that takes
\* (filename, document_title, url, file_size), which raises TypeError: the
\* handler of download_document logs it and returns False.
download_document(pu, cu, file, url, category, subcategory, outcome, io_ok) ==
    IF AlreadyDownloaded(pu, url)
    THEN [ret |-> FALSE, navigated |-> FALSE, at |-> "already_processed",
          processed_urls |-> pu, category_urls |-> cu, file |-> file]
    ELSE IF outcome = "no_directory"
    THEN [ret |-> FALSE, navigated |-> FALSE, at |-> "exception",
          processed_urls |-> pu, category_urls |-> cu, file |-> file]
    ELSE IF outcome /= "verified"
    THEN [ret |-> FALSE, navigated |-> TRUE, at |-> outcome,
          processed_urls |-> pu, category_urls |-> cu, file |-> file]
    ELSE LET a == add_url(pu, cu, file, category, subcategory, url, io_ok)
         IN [ret |-> FALSE, navigated |-> TRUE, at |-> "add_download_record",
             processed_urls |-> a.processed_urls,
             category_urls |-> a.category_urls, file |-> a.file]

DownloadDocument ==
    \E u \in Urls, category \in UrlCategories \ {<<>>},
       subcategory \in UrlSubcategories \ {<<>>},
       outcome \in DownloadOutcomes, io_ok \in BOOLEAN :
        LET r == download_document(processed_urls, category_urls,
                                   processed_urls_file, DocumentUrl(u),
                                   category, subcategory, outcome, io_ok)
        IN /\ processed_urls' = r.processed_urls
           /\ category_urls' = r.category_urls
           /\ processed_urls_file' = r.file
           /\ url_ret' = [op |-> "download_document", url |-> DocumentUrl(u),
                          name |-> u, category |-> category,
                          subcategory |-> subcategory, ret |-> r.ret,
                          navigated |-> r.navigated, at |-> r.at]
           /\ added' = r.processed_urls \ processed_urls
           /\ UNCHANGED <<pt_vars, sm_vars>>

\* the crawl creates one pattern
CrawlInitialize ==
    /\ PatternCount < MaxDiskPatterns
    /\ InitializePatternTracking({"ok"})

CrawlNext == CrawlInitialize \/ DownloadDocument

\* the crawl: a pattern of URLs to fetch and the downloads, on any log
SpecCrawl == InitUrl /\ [][CrawlNext]_vars

\* some pattern of the store has the URL in its pending list
PendingSomewhere(u) ==
    \E i \in 1..Len(AllPatterns) : u \in Range(AllPatterns[i].data.urls.pending)

(* C22.  A URL of the dedup index is never submitted again: for a URL for   *)
(* which is_processed is true, download_document returns False at its first *)
(* test, without opening the page, and leaves the index and the log as they *)
(* were; so also for a URL that is pending in a pattern of the store.  (A  *)
(* step that leaves the store of patterns alone is a step of the download   *)
(* manager.)                                                                *)
C22_NoResubmission ==
    [][(/\ url_ret'.op = "download_document"
        /\ UNCHANGED <<pt_vars, sm_vars>>
        /\ is_processed(processed_urls, url_ret'.url))
       =>
       (/\ ~url_ret'.navigated
        /\ url_ret'.ret = FALSE
        /\ url_ret'.at = "already_processed"
        /\ processed_urls' = processed_urls
        /\ category_urls' = category_urls
        /\ processed_urls_file' = processed_urls_file)
      ]_vars

\* download_document has turned away a URL that is in the index and is still
\* pending in a pattern, the log being one that an earlier download has
\* written to
C22_Witness ==
    /\ url_ret.op = "download_document"
    /\ url_ret.at = "already_processed"
    /\ ~url_ret.navigated
    /\ url_ret.url \in processed_urls
    /\ PendingSomewhere(url_ret.name)
    /\ Cardinality(processed_urls) = 2

----------------------------------------------------------------------------
(* ProgressTracker: pattern uniqueness *)

\* string.punctuation, with the double quote, the backslash and the backtick written by name
Punctuation ==
    {"!", "QUOTE", "#", "$", "%", "&", "'", "(", ")", "*", "+", ",", "-", ".", "/",
     ":", ";", "<", "=", ">", "?", "@", "[", "BACKSLASH", "]", "^", "_", "BACKTICK", "{", "|",
     "}", "~"}

UpperCase == <<"A", "B", "C", "D", "E", "F", "G", "H", "I", "J", "K", "L", "M",
               "N", "O", "P", "Q", "R", "S", "T", "U", "V", "W", "X", "Y", "Z">>
LowerCase == <<"a", "b", "c", "d", "e", "f", "g", "h", "i", "j", "k", "l", "m",
               "n", "o", "p", "q", "r", "s", "t", "u", "v", "w", "x", "y", "z">>

\* str.lower(), on one character
Lower(ch) ==
    IF \E i \in 1..Len(UpperCase) : UpperCase[i] = ch
    THEN LowerCase[CHOOSE i \in 1..Len(UpperCase) : UpperCase[i] = ch]
    ELSE ch

\* pattern.translate(str.maketrans('', '', string.punctuation)), with a
\* variant that keeps the punctuation
RemovePunctuation_keep(chars) == chars
RemovePunctuation(chars) == SelectSeq(chars, LAMBDA ch : ch \notin Punctuation)

\* str.split(): the runs of characters between whitespace
RECURSIVE SplitWords(_, _, _)
SplitWords(chars, cur, acc) ==
    IF chars = <<>> THEN (IF cur = <<>> THEN acc ELSE Append(acc, cur))
    ELSE IF IsSpace(Head(chars))
    THEN SplitWords(Tail(chars), <<>>, IF cur = <<>> THEN acc ELSE Append(acc, cur))
    ELSE SplitWords(Tail(chars), Append(cur, Head(chars)), acc)

\* ' '.join(words)
RECURSIVE JoinWords(_)
JoinWords(words) ==
    IF words = <<>> THEN <<>>
    ELSE IF Len(words) = 1 THEN words[1]
    ELSE words[1] \o <<"SP">> \o JoinWords(Tail(words))

\* the body of _normalize_pattern on a string: strip the punctuation,
\* lowercase, split on whitespace and join with single spaces
NormalizeText(chars) ==
    LET kept == RemovePunctuation(chars)
        lowered == [i \in 1..Len(kept) |-> Lower(kept[i])]
    IN JoinWords(SplitWords(lowered, <<>>, <<>>))

\* the search strings of the runs below, and the characters of each
UniqueTexts == {"car cover", "Car  Cover!", "car"}

Chars(pattern) ==
    CASE pattern = "car cover" -> <<"c", "a", "r", "SP", "c", "o", "v", "e", "r">>
      [] pattern = "Car  Cover!" ->
            <<"C", "a", "r", "SP", "SP", "C", "o", "v", "e", "r", "!">>
      [] pattern = "car" -> <<"c", "a", "r">>
      [] pattern = "dental insurance" ->
            <<"d", "e", "n", "t", "a", "l", "SP",
              "i", "n", "s", "u", "r", "a", "n", "c", "e">>

\* what _normalize_pattern returns for None: translate raises, the handler
\* logs and returns the argument as it came
NormalizedNone == <<None>>

\* _normalize_pattern
normalize_pattern(pattern) ==
    IF pattern = None THEN NormalizedNone ELSE NormalizeText(Chars(pattern))

\* the test of get_used_patterns, with a variant that takes every pattern
UsedStatus_any(data) == TRUE
UsedStatus(data) == data.status = "completed"

\* get_used_patterns: the normalized texts of the completed patterns
get_used_patterns(pd) ==
    LET hits == ScanOrder(pd.pattern_data)
    IN {normalize_pattern(hits[i].data.pattern) :
            i \in {j \in 1..Len(hits) : UsedStatus(hits[j].data)}}

\* is_pattern_unique: the candidate, normalized, is compared with every used
\* text, normalized once more
is_pattern_unique(pd, pattern) ==
    LET normalized_new_pattern == normalize_pattern(pattern)
    IN ~\E used_pattern \in get_used_patterns(pd) :
            normalized_new_pattern = NormalizeText(used_pattern)

\* the URL list of the searches below
UniqueUrls == <<"u1", "u2">>

\* the one subcategory the searches below run under
UniqueSubcategory == "Dental_Insurance"

\* initialize_pattern_tracking for one of the search strings, in either category
UniqueInitialize ==
    /\ PatternCount < MaxPatterns
    /\ \E category \in Categories, pattern \in UniqueTexts :
        LET r == initialize_pattern_tracking(progress_data, category,
                                             UniqueSubcategory, pattern, UniqueUrls)
        IN /\ progress_data' = r.progress_data
           /\ progress_file' = save_progress(r.progress_data, progress_file, "ok")
           /\ pt_ret' = [op |-> "initialize_pattern_tracking",
                         category |-> category, subcategory |-> UniqueSubcategory,
                         pattern |-> pattern, urls |-> UniqueUrls, ret |-> r.ret]
           /\ resume_seen' = SeenAfter(progress_file')
           /\ UNCHANGED <<url_vars, sm_vars>>

\* update_pattern_progress with a success, on a pattern of the store
UniqueUpdate ==
    \E category \in Categories, pattern_key \in PatternKeys, url \in Urls :
        LET r == update_pattern_progress(progress_data, category, UniqueSubcategory,
                                         pattern_key, url, TRUE)
        IN /\ KnownPattern(progress_data, category, UniqueSubcategory, pattern_key)
           /\ progress_data' = r.progress_data
           /\ progress_file' = save_progress(r.progress_data, progress_file, "ok")
           /\ pt_ret' = [op |-> "update_pattern_progress",
                         category |-> category, subcategory |-> UniqueSubcategory,
                         pattern_key |-> pattern_key, url |-> url,
                         success |-> TRUE, ret |-> r.ret]
           /\ resume_seen' = SeenAfter(progress_file')
           /\ UNCHANGED <<url_vars, sm_vars>>

IsPatternUnique ==
    \E pattern \in UniqueTexts \cup {None} :
        /\ pt_ret' = [op |-> "is_pattern_unique", pattern |-> pattern,
                      ret |-> is_pattern_unique(progress_data, pattern)]
        /\ UNCHANGED <<progress_data, progress_file, resume_seen>>
        /\ UNCHANGED <<url_vars, sm_vars>>

UniqueNext == UniqueInitialize \/ UniqueUpdate \/ IsPatternUnique

\* the searches and the uniqueness test
SpecUnique == Init /\ [][UniqueNext]_vars

\* the characters of a text that are not punctuation
Unpunctuated(pattern) == SelectSeq(Chars(pattern), LAMBDA ch : ch \notin Punctuation)

\* the places where a word of the text begins
WordStarts(t) == {i \in 1..Len(t) : ~IsSpace(t[i]) /\ (i = 1 \/ IsSpace(t[i - 1]))}

\* the n-th word of the text, in lower case
WordOf(t, n) ==
    LET first == CHOOSE i \in WordStarts(t) :
                    Cardinality({j \in WordStarts(t) : j < i}) = n - 1
        last == CHOOSE i \in first..Len(t) :
                    /\ \A j \in first..i : ~IsSpace(t[j])
                    /\ (i = Len(t) \/ IsSpace(t[i + 1]))
    IN [i \in 1..(last - first + 1) |-> Lower(t[first + i - 1])]

\* two texts are the same once punctuation, case and the amount of
\* whitespace are set aside: they have the same words in the same order
SameNormalized(p, q) ==
    /\ p /= None /\ q /= None
    /\ LET a == Unpunctuated(p)
           b == Unpunctuated(q)
       IN /\ Cardinality(WordStarts(a)) = Cardinality(WordStarts(b))
          /\ \A n \in 1..Cardinality(WordStarts(a)) : WordOf(a, n) = WordOf(b, n)

(* C23.  is_pattern_unique(text) is False exactly when some pattern whose   *)
(* status is completed, in any category and subcategory, has the same       *)
(* normalized text as the candidate (punctuation stripped, whitespace       *)
(* collapsed, lowercased); patterns in progress never make it False.        *)
C23_PatternUnique ==
    pt_ret.op = "is_pattern_unique" =>
        (pt_ret.ret = FALSE <=>
            \E i \in 1..Len(AllPatterns) :
                /\ AllPatterns[i].data.status = "completed"
                /\ SameNormalized(AllPatterns[i].data.pattern, pt_ret.pattern))

\* a candidate is refused for a completed pattern of another spelling, the
\* store holding a pattern in progress as well
C23_Witness ==
    /\ pt_ret.op = "is_pattern_unique"
    /\ pt_ret.ret = FALSE
    /\ \A i \in 1..Len(AllPatterns) :
          AllPatterns[i].data.status = "completed"
              => AllPatterns[i].data.pattern /= pt_ret.pattern
    /\ \E i \in 1..Len(AllPatterns) : AllPatterns[i].data.status = "in_progress"

----------------------------------------------------------------------------
(* Statistics *)

\* the sum of f over the patterns of the store
SumPatterns(f(_)) ==
    SumOver([i \in 1..Len(AllPatterns) |-> f(AllPatterns[i].data)],
            1..Len(AllPatterns))

UrlsGiven(data) == data.urls.total
UrlsDownloaded(data) == Len(data.urls.downloaded)
UrlsFailed(data) == Len(data.urls.failed)
IsCompleted(data) == IF data.status = "completed" THEN 1 ELSE 0

(* C27.  The statistics can be recomputed from the pattern records: in      *)
(* every reachable state total_patterns is the number of patterns,          *)
(* total_urls the sum of the URL counts given when the patterns were        *)
(* created, downloaded_urls the total size of the downloaded collections    *)
(* and failed_urls the total size of the failed collections.                *)
C27_StatisticsRecomputable ==
    LET st == progress_data.statistics
    IN /\ st.total_patterns = Len(AllPatterns)
       /\ st.total_urls = SumPatterns(UrlsGiven)
       /\ st.downloaded_urls = SumPatterns(UrlsDownloaded)
       /\ st.failed_urls = SumPatterns(UrlsFailed)

\* two patterns, one of them completed, with downloads and a failed entry
C27_Witness ==
    /\ Len(AllPatterns) = 2
    /\ progress_data.statistics.total_urls = 4
    /\ progress_data.statistics.downloaded_urls >= 3
    /\ progress_data.statistics.failed_urls >= 1
    /\ \E i \in 1..2 : AllPatterns[i].data.status = "completed"

(* C28.  In every reachable state completed_patterns is the number of       *)
(* patterns whose status is completed: a pattern is counted once, also when *)
(* further successful outcomes are recorded on it after its completion.     *)
C28_CompletedCount ==
    progress_data.statistics.completed_patterns = SumPatterns(IsCompleted)

----------------------------------------------------------------------------
(* Pattern keys and the life of a pattern *)

\* the (category, subcategory) pairs the calls are made with
Buckets == Categories \X Subcategories

HasCategory(pd, category) ==
    /\ "categories" \in DOMAIN pd
    /\ DictHas(pd.categories, category)

HasSubcategory(pd, category, subcategory) ==
    /\ HasCategory(pd, category)
    /\ DictHas(DictGet(pd.categories, category).subcategories, subcategory)

\* all(sub['completed'] for sub in subcategories.values())
AllCompleted(subcategories) ==
    \A i \in 1..Len(subcategories) : subcategories[i].v.completed

\* check_category_completion: the KeyError of a missing key is logged and
\* nothing changes
check_category_completion(pd, category) ==
    IF ~HasCategory(pd, category) THEN pd
    ELSE LET entry == DictGet(pd.categories, category)
         IN IF AllCompleted(entry.subcategories)
            THEN [pd EXCEPT !.categories =
                     DictPut(pd.categories, category,
                             [entry EXCEPT !.completed = TRUE])]
            ELSE pd

\* mark_subcategory_complete: the KeyError of a missing key is raised by the
\* first statement, before anything is changed or saved
mark_subcategory_complete(pd, category, subcategory) ==
    IF ~HasSubcategory(pd, category, subcategory)
    THEN [raised |-> TRUE, progress_data |-> pd]
    ELSE LET entry == DictGet(pd.categories, category)
             marked == [entry EXCEPT !.subcategories =
                           DictPut(entry.subcategories, subcategory,
                                   [DictGet(entry.subcategories, subcategory)
                                    EXCEPT !.completed = TRUE])]
             pd2 == [pd EXCEPT !.categories = DictPut(pd.categories, category, marked)]
         IN [raised |-> FALSE, progress_data |-> check_category_completion(pd2, category)]

\* progress files that hold categories: each category with no subcategory,
\* one or two, nothing completed yet
OpenSubcategories ==
    {<<>>,
     <<[k |-> "Dental_Insurance", v |-> [completed |-> FALSE]]>>,
     <<[k |-> "Dental_Insurance", v |-> [completed |-> FALSE]],
       [k |-> "Vision_Insurance", v |-> [completed |-> FALSE]]>>}

OpenCategory(category, subcategories) ==
    [k |-> category, v |-> [completed |-> FALSE, subcategories |-> subcategories]]

CategoryStores ==
    {<<>>}
    \cup {<<OpenCategory("HEALTH_INSURANCE", s)>> : s \in OpenSubcategories}
    \cup {<<OpenCategory("HEALTH_INSURANCE", s), OpenCategory("AUTO_INSURANCE", t)>> :
            s \in OpenSubcategories, t \in OpenSubcategories}

WithCategories(pd, categories) ==
    [f \in DOMAIN pd \cup {"categories"} |->
        IF f = "categories" THEN categories ELSE pd[f]]

CategoryFiles ==
    {JsonText(json_dump(WithCategories(InitialProgressData, c))) : c \in CategoryStores}

\* ProgressTracker(): __init__ builds the defaults and load_progress reads
\* the progress file, if there is one
CategoriesInit ==
    /\ \E file \in CategoryFiles \cup {NoFile} :
        /\ progress_file = file
        /\ progress_data = load_progress(InitialProgressData, file, TRUE).progress_data
    /\ pt_ret = [op |-> "init"]
    /\ resume_seen = Unseen

InitCategories == CategoriesInit /\ UrlIdle

MarkSubcategoryComplete ==
    \E category \in Categories, subcategory \in Subcategories :
        LET r == mark_subcategory_complete(progress_data, category, subcategory)
        IN /\ progress_data' = r.progress_data
           /\ progress_file' = IF r.raised THEN progress_file
                               ELSE save_progress(r.progress_data, progress_file, "ok")
           /\ pt_ret' = [op |-> "mark_subcategory_complete", category |-> category,
                         subcategory |-> subcategory, raised |-> r.raised]
           /\ resume_seen' = SeenAfter(progress_file')
           /\ UNCHANGED <<url_vars, sm_vars>>

CheckCategoryCompletion ==
    \E category \in Categories :
        /\ progress_data' = check_category_completion(progress_data, category)
        /\ pt_ret' = [op |-> "check_category_completion", category |-> category,
                      raised |-> ~HasCategory(progress_data, category)]
        /\ UNCHANGED <<progress_file, resume_seen>>
        /\ UNCHANGED <<url_vars, sm_vars>>

CategoriesNext == MarkSubcategoryComplete \/ CheckCategoryCompletion

SpecCategories == InitCategories /\ [][CategoriesNext]_vars

\* the categories the tracker knows
KnownCategories(pd) ==
    IF "categories" \in DOMAIN pd THEN pd.categories ELSE <<>>

\* C24: a category is marked complete exactly when it has at least one known
\* subcategory and every known subcategory is complete; a category with no
\* known subcategory is never marked complete
C24_CategoryComplete ==
    \A i \in 1..Len(KnownCategories(progress_data)) :
        LET entry == KnownCategories(progress_data)[i].v
        IN entry.completed <=>
              /\ Len(entry.subcategories) > 0
              /\ \A j \in 1..Len(entry.subcategories) : entry.subcategories[j].v.completed

\* ---------------------------------------------------------------------------
\* Subcategories: the count of confirmed downloads and completion
\* ---------------------------------------------------------------------------

\* the fixed number of downloads that completes a subcategory
\* (download_manager.py: if current_downloads >= 2)
RequiredDownloads == 2

MaxDownloads == 3

\* the count of confirmed downloads the tracker keeps for each subcategory,
\* a dict of dicts under a key of progress_data that the first recorded
\* download creates
DownloadCounts(pd) ==
    IF "subcategory_downloads" \in DOMAIN pd THEN pd.subcategory_downloads ELSE <<>>

\* progress_tracker.get_subcategory_downloads(category, subcategory): the
\* count, 0 for a subcategory nothing was recorded against
get_subcategory_downloads(pd, category, subcategory) ==
    DictGetOr(DictGetOr(DownloadCounts(pd), category, <<>>), subcategory, 0)

\* progress_tracker.record_download(category, subcategory, count): the
\* subcategory is created by the first download recorded against it
record_download(pd, category, subcategory, count) ==
    LET counts == DownloadCounts(pd)
        subs == DictGetOr(counts, category, <<>>)
        counts2 == DictPut(counts, category,
                           DictPut(subs, subcategory,
                                   DictGetOr(subs, subcategory, 0) + count))
    IN [f \in DOMAIN pd \cup {"subcategory_downloads"} |->
           IF f = "subcategory_downloads" THEN counts2 ELSE pd[f]]

\* progress_tracker.is_subcategory_complete(category, subcategory)
is_subcategory_complete(pd, category, subcategory) ==
    get_subcategory_downloads(pd, category, subcategory) >= RequiredDownloads

\* progress_tracker.is_category_complete(category): the category has a known
\* subcategory and every known subcategory is complete
is_category_complete(pd, category) ==
    LET subs == DictGetOr(DownloadCounts(pd), category, <<>>)
    IN /\ Len(subs) > 0
       /\ \A i \in 1..Len(subs) : is_subcategory_complete(pd, category, subs[i].k)

\* download_document once the file is verified and recorded in the report:
\* the download is counted, and the subcategory that has reached the fixed
\* number is marked complete (mark_subcategory_complete logs its KeyError when
\* the tracker has no such subcategory under 'categories'); the category the
\* tracker reports complete is marked in the configuration
RecordDownload ==
    \E category \in Categories, subcategory \in Subcategories :
        LET counted == record_download(progress_data, category, subcategory, 1)
            current_downloads == get_subcategory_downloads(counted, category, subcategory)
            reached == current_downloads >= RequiredDownloads
            r == IF reached
                 THEN mark_subcategory_complete(counted, category, subcategory)
                 ELSE [raised |-> FALSE, progress_data |-> counted]
            saved == save_progress(counted, progress_file, "ok")
        IN /\ get_subcategory_downloads(progress_data, category, subcategory) < MaxDownloads
           /\ progress_data' = r.progress_data
           /\ progress_file' = IF reached /\ ~r.raised
                               THEN save_progress(r.progress_data, saved, "ok")
                               ELSE saved
           /\ pt_ret' = [op |-> "record_download", category |-> category,
                         subcategory |-> subcategory,
                         current_downloads |-> current_downloads,
                         reached |-> reached,
                         category_complete |->
                            reached /\ is_category_complete(r.progress_data, category)]
           /\ resume_seen' = SeenAfter(progress_file')
           /\ UNCHANGED <<url_vars, sm_vars>>

max(a, b) == IF a >= b THEN a ELSE b

\* execute_search_with_retries on a search that shows no page with results:
\* every return of the function is (True, [])
execute_search_with_retries == [success |-> TRUE, fetched_urls |-> <<>>]

\* calculate_completion_status with a variant that takes the subcategory
\* without new URLs as complete on its first download only
calculate_completion_status_once(total_urls, current_downloads) ==
    IF total_urls = 0
    THEN IF current_downloads = 1
         THEN [is_complete |-> TRUE, current_downloads |-> current_downloads,
               required_downloads |-> current_downloads, total_urls |-> total_urls]
         ELSE [is_complete |-> FALSE, current_downloads |-> 0,
               required_downloads |-> 0, total_urls |-> 0]
    ELSE LET required_downloads == max(total_urls \div 2, 1)
         IN [is_complete |-> current_downloads >= required_downloads,
             current_downloads |-> current_downloads,
             required_downloads |-> required_downloads, total_urls |-> total_urls]

\* calculate_completion_status from the number of URLs the search has
\* returned and the count of the subcategory: the tuple it returns
calculate_completion_status(total_urls, current_downloads) ==
    IF total_urls = 0
    THEN IF current_downloads > 0
         THEN [is_complete |-> TRUE, current_downloads |-> current_downloads,
               required_downloads |-> current_downloads, total_urls |-> total_urls]
         ELSE [is_complete |-> FALSE, current_downloads |-> 0,
               required_downloads |-> 0, total_urls |-> 0]
    ELSE LET required_downloads == max(total_urls \div 2, 1)
         IN [is_complete |-> current_downloads >= required_downloads,
             current_downloads |-> current_downloads,
             required_downloads |-> required_downloads, total_urls |-> total_urls]

CalculateCompletionStatus ==
    \E category \in Categories, subcategory \in Subcategories,
       search_term \in PatternTexts :
        /\ pt_ret' = [op |-> "calculate_completion_status", category |-> category,
                      subcategory |-> subcategory, search_term |-> search_term,
                      ret |-> calculate_completion_status(
                                 Len(execute_search_with_retries.fetched_urls),
                                 get_subcategory_downloads(progress_data, category,
                                                           subcategory))]
        /\ UNCHANGED <<progress_data, progress_file, resume_seen>>
        /\ UNCHANGED <<url_vars, sm_vars>>

CompletionNext == RecordDownload \/ CalculateCompletionStatus

SpecCompletion == Init /\ [][CompletionNext]_vars

\* the threshold of the subcategory when total_urls URLs were discovered: half
\* of them, and 1 at least
HalfOfDiscovered(total_urls) == IF total_urls \div 2 < 1 THEN 1 ELSE total_urls \div 2

\* the numbers of URLs a search may have discovered
MaxDiscovered == 4

\* what calculate_completion_status says of a subcategory in a state of the
\* tracker when the search has discovered total_urls URLs
ReportedComplete(pd, category, subcategory, total_urls) ==
    calculate_completion_status(total_urls,
                                get_subcategory_downloads(pd, category, subcategory)
                               ).is_complete

\* what download_document finds when it compares the count with the fixed
\* number
ReachedRequired(pd, category, subcategory) ==
    get_subcategory_downloads(pd, category, subcategory) >= RequiredDownloads

StatusOf(pattern_key, pattern, data) ==
    [pattern_key |-> pattern_key,
     pattern |-> pattern,
     status |-> data.status,
     downloaded_urls |-> data.urls.downloaded,
     pending_urls |-> data.urls.pending,
     failed_urls |-> data.urls.failed,
     total_urls |-> Len(data.urls.downloaded) + Len(data.urls.pending)
                    + Len(data.urls.failed)]

\* the None that get_pattern_status returns
NoStatus == [none |-> TRUE]

\* get_pattern_status: the pattern under the key when the key is given and
\* known, else the first pattern of the subcategory with the text
get_pattern_status(pd, category, subcategory, pattern, pattern_key) ==
    IF ~(Truthy(category) /\ Truthy(subcategory)) THEN NoStatus
    ELSE IF ~Truthy(pattern) /\ ~NonEmpty(pattern_key) THEN NoStatus
    ELSE IF ~DictHas(pd.pattern_data, category) THEN NoStatus
    ELSE IF ~DictHas(DictGet(pd.pattern_data, category), subcategory) THEN NoStatus
    ELSE
    LET subcategory_patterns == SubPatterns(pd, category, subcategory)
        hits == {i \in 1..Len(subcategory_patterns) :
                    subcategory_patterns[i].v.pattern = pattern}
    IN IF NonEmpty(pattern_key) /\ DictHas(subcategory_patterns, pattern_key)
       THEN LET data == DictGet(subcategory_patterns, pattern_key)
            IN StatusOf(pattern_key, data.pattern, data)
       ELSE IF Truthy(pattern) /\ hits /= {}
       THEN LET i == CHOOSE h \in hits : \A g \in hits : h <= g
            IN StatusOf(subcategory_patterns[i].k, pattern, subcategory_patterns[i].v)
       ELSE NoStatus

\* is_pattern_completed: pattern_status and pattern_status['status'] ==
\* 'completed', which is the None of get_pattern_status when there is no
\* such pattern
is_pattern_completed(pd, category, subcategory, pattern, pattern_key) ==
    LET pattern_status == get_pattern_status(pd, category, subcategory, pattern,
                                             pattern_key)
    IN IF pattern_status = NoStatus THEN None
       ELSE IF pattern_status.status = "completed" THEN "True" ELSE "False"

\* the keys the queries are made with
QueryKeys == {PatternKey(1), NoKey}

GetPatternStatus ==
    \E category \in Categories, subcategory \in Subcategories,
       pattern \in PatternTexts \cup {None}, pattern_key \in QueryKeys :
        /\ pt_ret' = [op |-> "get_pattern_status", category |-> category,
                      subcategory |-> subcategory, pattern |-> pattern,
                      pattern_key |-> pattern_key,
                      ret |-> get_pattern_status(progress_data, category, subcategory,
                                                 pattern, pattern_key)]
        /\ UNCHANGED <<progress_data, progress_file, resume_seen>>
        /\ UNCHANGED <<url_vars, sm_vars>>

IsPatternCompleted ==
    \E category \in Categories, subcategory \in Subcategories,
       pattern \in PatternTexts \cup {None}, pattern_key \in QueryKeys :
        /\ pt_ret' = [op |-> "is_pattern_completed", category |-> category,
                      subcategory |-> subcategory, pattern |-> pattern,
                      pattern_key |-> pattern_key,
                      ret |-> is_pattern_completed(progress_data, category, subcategory,
                                                   pattern, pattern_key)]
        /\ UNCHANGED <<progress_data, progress_file, resume_seen>>
        /\ UNCHANGED <<url_vars, sm_vars>>

\* the progress files the queries are made on: of the current schema, and
\* with a category that has no subcategory or one
QueryFiles ==
    {JsonText(json_dump(InitialProgressData)),
     JsonText(json_dump(WithCategories(InitialProgressData,
        <<OpenCategory("HEALTH_INSURANCE", <<>>)>>))),
     JsonText(json_dump(WithCategories(InitialProgressData,
        <<OpenCategory("HEALTH_INSURANCE",
            <<[k |-> "Dental_Insurance", v |-> [completed |-> FALSE]]>>)>>)))}

\* a tracker on a progress file and a manager on a log of one record
InitQueries ==
    /\ \E file \in QueryFiles \cup {NoFile} :
        /\ progress_file = file
        /\ progress_data = load_progress(InitialProgressData, file, TRUE).progress_data
    /\ pt_ret = [op |-> "init"]
    /\ resume_seen = Unseen
    /\ processed_urls_file = FormatRecord(<<"a">>, <<"x">>, <<"P", "1">>)
    /\ processed_urls = load_processed_urls(processed_urls_file).processed_urls
    /\ category_urls = load_processed_urls(processed_urls_file).category_urls
    /\ url_ret = [op |-> "init"]
    /\ added = {}
    /\ SearchIdle

\* a search and the outcomes of its URLs, to give the queries a store
QueriesInitialize == PatternCount < MaxDiskPatterns /\ InitializePatternTracking({"ok"})

QueriesUpdate ==
    \E category \in Categories, subcategory \in Subcategories, url \in Urls :
        LET r == update_pattern_progress(progress_data, category, subcategory,
                                         PatternKey(1), url, TRUE)
        IN /\ KnownPattern(progress_data, category, subcategory, PatternKey(1))
           /\ progress_data' = r.progress_data
           /\ progress_file' = IF r.saved
                               THEN save_progress(r.progress_data, progress_file, "ok")
                               ELSE progress_file
           /\ pt_ret' = [op |-> "update_pattern_progress",
                         category |-> category, subcategory |-> subcategory,
                         pattern_key |-> PatternKey(1), url |-> url,
                         success |-> TRUE, ret |-> r.ret]
           /\ resume_seen' = SeenAfter(progress_file')
           /\ UNCHANGED <<url_vars, sm_vars>>

QueriesNext ==
    \/ QueriesInitialize
    \/ QueriesUpdate
    \/ GetPatternStatus
    \/ IsPatternCompleted
    \/ CheckCategoryCompletion
    \/ GetResumePoint
    \/ IsPatternUnique
    \/ IsProcessed

SpecQueries == InitQueries /\ [][QueriesNext]_vars

QueryOps ==
    {"get_pattern_status", "is_pattern_completed", "check_category_completion",
     "get_resume_point", "is_pattern_unique"}

\* C31: is_pattern_completed, get_pattern_status, check_category_completion,
\* get_resume_point, is_pattern_unique and is_processed change neither the
\* store (pattern_data, statistics, current_position, the completion flags)
\* nor the progress file and the dedup log
C31_QueriesPure ==
    [][(\/ pt_ret'.op \in QueryOps /\ UNCHANGED <<url_vars, sm_vars>>
        \/ url_ret'.op = "is_processed" /\ UNCHANGED <<pt_vars, sm_vars>>)
       => UNCHANGED <<progress_data, progress_file, processed_urls, category_urls,
                      processed_urls_file>>]_vars

\* ---------------------------------------------------------------------------
\* ScribdScraper.run: the loop of the run
\* ---------------------------------------------------------------------------

\* the iterations of the while loop, each taken as one step: a pass over the
\* pending URLs of the resume decision, or a search with the pass over its
\* URLs, or the search that ends the loop

\* if downloaded_count >= 5
DownloadLimit == 5

\* the length of the longest URL list a pass goes over
MaxPending ==
    CHOOSE n \in {Len(urls) : urls \in UrlLists} : \A urls \in UrlLists : Len(urls) <= n

\* self.download_manager.download_document(url, category=..., subcategory=...,
\* pattern=..., pattern_key=...): download_document takes url, category and
\* subcategory only, the call raises TypeError before the method runs, and
\* the except of the loop body goes on with the next URL.  outcome is what
\* the download would have given.
CallDownloadDocument(url, outcome) == [raised |-> TRUE, success |-> FALSE]

\* update_pattern_progress as the loop calls it, with its save
ReportOutcome(st, category, subcategory, pattern_key, url, success) ==
    LET r == update_pattern_progress(st.progress_data, category, subcategory,
                                     pattern_key, url, success)
    IN [st EXCEPT !.progress_data = r.progress_data,
                  !.progress_file = IF r.saved
                                    THEN save_progress(r.progress_data, @, "ok")
                                    ELSE @,
                  !.reported = Append(@, [url |-> url, success |-> success])]

\* resume_point['pending_urls'] is data['urls']['pending'], the list of the
\* pattern and not a copy of it: what it holds when the store is pd
PendingUrlsOf(pd, resume_point) ==
    PatternAt(pd, resume_point.category, resume_point.subcategory,
              resume_point.pattern_key).urls.pending

\* what a pass starts with
PassStart(pd, file) ==
    [progress_data |-> pd, progress_file |-> file, submitted |-> <<>>,
     reported |-> <<>>, limit |-> FALSE]

\* for idx, url in enumerate(resume_point['pending_urls']): the list is the
\* pending list of the pattern itself (get_resume_point returns it, not a
\* copy), so the i-th URL is taken from the list as it is when the iteration
\* comes to it
RECURSIVE ResumeLoop(_, _, _, _, _)
ResumeLoop(st, resume_point, i, downloaded_count, outcomes) ==
    LET pending_urls == PendingUrlsOf(st.progress_data, resume_point)
    IN IF i > Len(pending_urls) THEN st
       ELSE
       LET url == pending_urls[i]
           call == CallDownloadDocument(url, outcomes[i])
           tried == [st EXCEPT !.submitted = Append(@, url)]
           count == IF call.success THEN downloaded_count + 1 ELSE downloaded_count
       IN IF call.raised
          THEN ResumeLoop(tried, resume_point, i + 1, downloaded_count, outcomes)
          ELSE LET told == ReportOutcome(tried, resume_point.category,
                                         resume_point.subcategory,
                                         resume_point.pattern_key, url, call.success)
               IN IF count >= DownloadLimit THEN [told EXCEPT !.limit = TRUE]
                  ELSE ResumeLoop(told, resume_point, i + 1, count, outcomes)

\* for idx, url in enumerate(urls), after initialize_pattern_tracking has
\* stored a copy of urls: at the limit the outcome is reported once more, as
\* a success
RECURSIVE SearchLoop(_, _, _, _, _, _)
SearchLoop(st, search_results, pattern_key, i, downloaded_count, outcomes) ==
    IF i > Len(search_results.urls) THEN st
    ELSE
    LET url == search_results.urls[i]
        call == CallDownloadDocument(url, outcomes[i])
        tried == [st EXCEPT !.submitted = Append(@, url)]
        count == IF call.success THEN downloaded_count + 1 ELSE downloaded_count
    IN IF call.raised
       THEN SearchLoop(tried, search_results, pattern_key, i + 1, downloaded_count,
                       outcomes)
       ELSE LET told == ReportOutcome(tried, search_results.category,
                                      search_results.subcategory, pattern_key, url,
                                      call.success)
            IN IF count >= DownloadLimit
               THEN [ReportOutcome(told, search_results.category,
                                   search_results.subcategory, pattern_key, url, TRUE)
                     EXCEPT !.limit = TRUE]
               ELSE SearchLoop(told, search_results, pattern_key, i + 1, count, outcomes)

RunOps == {"resume_pass", "search_pass", "all_patterns_processed"}

\* the loop has been entered
Running == pt_ret.op \in RunOps

\* resume_point.get('status') == 'resume' and resume_point.get('pending_urls')
ResumeDecision(resume_point) ==
    resume_point.status = "resume" /\ resume_point.pending_urls /= <<>>

\* an iteration that resumes the pattern in progress
RunResumePass ==
    /\ pt_ret.op /= "all_patterns_processed"
    /\ \E resume_point \in {get_resume_point(progress_data)},
          outcomes \in [1..MaxPending -> BOOLEAN] :
        /\ ResumeDecision(resume_point)
        /\ \E st \in {ResumeLoop(PassStart(progress_data, progress_file),
                                  resume_point, 1, 0, outcomes)} :
            /\ progress_data' = st.progress_data
            /\ progress_file' = st.progress_file
            /\ pt_ret' = [op |-> "resume_pass", resume_point |-> resume_point,
                          submitted |-> st.submitted, reported |-> st.reported,
                          limit |-> st.limit]
            /\ resume_seen' = SeenAfter(progress_file')
            /\ UNCHANGED <<url_vars, sm_vars>>

\* what search_executor.execute_search_sequence() returns: the next pattern
\* with the URLs its search has found, or nothing when every pattern has been
\* searched
NoResults == [none |-> TRUE]

SearchResults ==
    [category : Categories, subcategory : Subcategories, pattern : PatternTexts,
     pattern_index : {0}, urls : UrlLists \cup {<<>>}]

execute_search_sequence(pd) ==
    IF Len(ScanOrder(pd.pattern_data)) < MaxDiskPatterns
    THEN SearchResults \cup {NoResults}
    ELSE {NoResults}

\* an iteration that searches: the loop ends when the search returns nothing;
\* a search with URLs starts a pattern and goes over its URLs
RunSearchPass ==
    /\ pt_ret.op /= "all_patterns_processed"
    /\ ~ResumeDecision(get_resume_point(progress_data))
    /\ \E search_results \in execute_search_sequence(progress_data),
          outcomes \in [1..MaxPending -> BOOLEAN] :
        IF search_results = NoResults
        THEN /\ pt_ret' = [op |-> "all_patterns_processed"]
             /\ UNCHANGED <<progress_data, progress_file, resume_seen>>
             /\ UNCHANGED <<url_vars, sm_vars>>
        ELSE IF search_results.urls = <<>>
        THEN /\ pt_ret' = [op |-> "search_pass", search_results |-> search_results,
                           pattern_key |-> NoKey, submitted |-> <<>>,
                           reported |-> <<>>, limit |-> FALSE]
             /\ UNCHANGED <<progress_data, progress_file, resume_seen>>
             /\ UNCHANGED <<url_vars, sm_vars>>
        ELSE \E r \in {initialize_pattern_tracking(progress_data,
                          search_results.category, search_results.subcategory,
                          search_results.pattern, search_results.urls)} :
             \E st \in {SearchLoop(PassStart(r.progress_data,
                                      save_progress(r.progress_data, progress_file, "ok")),
                                  search_results, r.ret, 1, 0, outcomes)} :
                /\ progress_data' = st.progress_data
                /\ progress_file' = st.progress_file
                /\ pt_ret' = [op |-> "search_pass", search_results |-> search_results,
                              pattern_key |-> r.ret, submitted |-> st.submitted,
                              reported |-> st.reported, limit |-> st.limit]
                /\ resume_seen' = SeenAfter(progress_file')
                /\ UNCHANGED <<url_vars, sm_vars>>

\* the store that an earlier run has left: a search and the outcomes of its
\* URLs, recorded before the loop is entered
EarlierInitialize ==
    /\ ~Running
    /\ PatternCount < MaxDiskPatterns
    /\ InitializePatternTracking({"ok"})

EarlierUpdate == ~Running /\ UpdatePatternProgress({"ok"})

RunLoop == RunResumePass \/ RunSearchPass

RunNext == EarlierInitialize \/ EarlierUpdate \/ RunResumePass \/ RunSearchPass

SpecRun == Init /\ [][RunNext]_vars

\* the loop goes on as long as it has not ended
SpecRunFair == Init /\ [][RunNext]_vars /\ WF_vars(RunLoop)

\* C32: the loop makes progress on resumed work: a resume pass is followed,
\* sooner or later, by an iteration that reaches the search
C32_ResumeProgress ==
    [](pt_ret.op = "resume_pass"
         => <>(pt_ret.op \in {"search_pass", "all_patterns_processed"}))

\* a resume pass that the download limit does not end submits every URL of
\* the decision to download_document once, in the order of the list
ResumePassSubmitsAll ==
    (pt_ret.op = "resume_pass" /\ ~pt_ret.limit)
        => pt_ret.submitted = pt_ret.resume_point.pending_urls

----------------------------------------------------------------------------
(* Outcomes recorded twice, failures of initialize_pattern_tracking and the *)
(* cursor of the completed patterns                                         *)

\* the record of the pattern the last update_pattern_progress call named
LastPattern(pd) ==
    DictGet(SubPatterns(pd, pt_ret.category, pt_ret.subcategory), pt_ret.pattern_key)

\* the step repeats the last call: update_pattern_progress with success = True
\* for the same pattern and the same URL
RepeatsSuccess ==
    /\ pt_ret.op = "update_pattern_progress"
    /\ pt_ret.success
    /\ KnownPattern(progress_data, pt_ret.category, pt_ret.subcategory,
                    pt_ret.pattern_key)
    /\ pt_ret'.op = "update_pattern_progress"
    /\ pt_ret' = pt_ret

\* C34: a second update_pattern_progress(..., url, success=True) for the same
\* pattern and URL leaves the pattern's pending, downloaded and failed
\* collections, its status and statistics.downloaded_urls as the first call
\* left them
C34_SuccessIdempotent ==
    [][RepeatsSuccess
         => /\ LastPattern(progress_data') = LastPattern(progress_data)
            /\ progress_data'.statistics.downloaded_urls
                 = progress_data.statistics.downloaded_urls]_vars

\* the statistics a progress file may carry: all five counters, or the three
\* of a file written without total_urls or without both totals
FileStatistics ==
    {InitialProgressData.statistics,
     [total_patterns |-> 0, completed_patterns |-> 0, downloaded_urls |-> 0,
      failed_urls |-> 0],
     [completed_patterns |-> 0, downloaded_urls |-> 0, failed_urls |-> 0]}

CounterFiles ==
    {JsonText(json_dump([InitialProgressData EXCEPT !.statistics = st])) :
        st \in FileStatistics}

\* ProgressTracker() on one of these files: update() replaces the default
\* statistics by the dict of the file
InitCounters ==
    /\ \E file \in CounterFiles :
        /\ progress_file = file
        /\ progress_data = load_progress(InitialProgressData, file, TRUE).progress_data
    /\ pt_ret = [op |-> "init"]
    /\ resume_seen = Unseen
    /\ UrlIdle

CountersInitialize == PatternCount < MaxPatterns /\ InitializePatternTracking({"ok"})

CountersUpdate ==
    \E category \in Categories, subcategory \in Subcategories, url \in Urls :
        LET r == update_pattern_progress(progress_data, category, subcategory,
                                         PatternKey(1), url, TRUE)
        IN /\ KnownPattern(progress_data, category, subcategory, PatternKey(1))
           /\ progress_data' = r.progress_data
           /\ progress_file' = IF r.saved
                               THEN save_progress(r.progress_data, progress_file, "ok")
                               ELSE progress_file
           /\ pt_ret' = [op |-> "update_pattern_progress",
                         category |-> category, subcategory |-> subcategory,
                         pattern_key |-> PatternKey(1), url |-> url,
                         success |-> TRUE, ret |-> r.ret]
           /\ resume_seen' = SeenAfter(progress_file')
           /\ UNCHANGED <<url_vars, sm_vars>>

CountersNext == CountersInitialize \/ CountersUpdate \/ GetResumePoint

\* the tracker on progress files with and without the total counters
SpecCounters == InitCounters /\ [][CountersNext]_vars

\* C35: an initialize_pattern_tracking call that returns None has added no
\* pattern entry and has left current_position as it was, so that the store
\* in memory is still the one of the progress file
C35_AllOrNothing ==
    [][(pt_ret'.op = "initialize_pattern_tracking" /\ pt_ret'.ret = NoKey)
         => /\ progress_data'.pattern_data = progress_data.pattern_data
            /\ progress_data'.current_position = progress_data.current_position]_vars

\* the record of the pattern the update_pattern_progress call of this step names
NamedPattern(pd) ==
    DictGet(SubPatterns(pd, pt_ret'.category, pt_ret'.subcategory), pt_ret'.pattern_key)

\* C36: update_pattern_progress adds one to current_position.pattern_index in
\* the call by which the pattern becomes completed, and a call on a pattern
\* that is completed already leaves pattern_index as it is
C36_CursorOncePerPattern ==
    [][(/\ pt_ret'.op = "update_pattern_progress"
        /\ KnownPattern(progress_data, pt_ret'.category, pt_ret'.subcategory,
                        pt_ret'.pattern_key))
         => progress_data'.current_position.pattern_index
              = progress_data.current_position.pattern_index
                + (IF /\ NamedPattern(progress_data).status /= "completed"
                      /\ NamedPattern(progress_data').status = "completed"
                   THEN 1 ELSE 0)]_vars

----------------------------------------------------------------------------
(* ProcessedURLManager: the statistics of the index *)

\* the records a log may hold: one URL under two category/subcategory pairs,
\* and a second URL
StatsRecords ==
    {FormatRecord(<<"a">>, <<"x">>, <<"P", "1">>),
     FormatRecord(<<"b">>, <<"y">>, <<"P", "1">>),
     FormatRecord(<<"a">>, <<"y">>, <<"P", "2">>)}

\* no log, and the logs of at most two of these records
StatsFiles ==
    {NoFile, <<>>} \cup StatsRecords \cup {r1 \o r2 : r1, r2 \in StatsRecords}

\* ProcessedURLManager() on one of these logs
InitStats ==
    /\ processed_urls_file \in StatsFiles
    /\ processed_urls = load_processed_urls(processed_urls_file).processed_urls
    /\ category_urls = load_processed_urls(processed_urls_file).category_urls
    /\ url_ret = [op |-> "init"]
    /\ added = {}
    /\ SearchIdle
    /\ PtInit

\* add_url on a log that is not yet full
StatsAddUrl == LineCount(processed_urls_file) < MaxLogLines /\ AddUrl

StatsNext == StatsAddUrl \/ GetStats \/ RestartManager

\* the statistics of the dedup index, over logs that name a URL once or twice
SpecStats == InitStats /\ [][StatsNext]_vars

\* the sum of the totals that get_stats reports for the categories
CategoryTotals(stats) ==
    SumOver([c \in DOMAIN stats.categories |-> stats.categories[c].total],
            DOMAIN stats.categories)

\* C37: in every reachable state the total_urls of get_stats is the sum of
\* its per-category totals, and every processed URL is in exactly one
\* category/subcategory bucket
C37_StatsConsistent ==
    LET stats == get_stats(processed_urls, category_urls)
    IN /\ stats.total_urls = CategoryTotals(stats)
       /\ \A url \in processed_urls :
            Cardinality(BucketsOf(category_urls, url)) = 1

----------------------------------------------------------------------------
(* SearchMechanism: the cursor over the categories and their subcategories *)

\* the most categories of a configuration and the most subcategories of one
MaxCategories == 2
MaxSubcategories == 2

CategoryName(i) == <<"category", i>>
SubcategoryName(i, j) == <<"subcategory", i, j>>

\* the subcategories of a category: a list of names or, as in
\* insurance_data.py, a dict with the names as its keys
Collection(type, i, size) ==
    [type |-> type, names |-> [j \in 1..size |-> SubcategoryName(i, j)]]

\* insurance_categories: a dict from each category to its subcategories, of
\* which a category may have none
Configurations ==
    {[i \in 1..n |-> [k |-> CategoryName(i), v |-> Collection(type, i, sizes[i])]] :
        <<n, type, sizes>> \in
            UNION {{<<m, t, sz>> : t \in {"list", "dict"},
                                   sz \in [1..m -> 0..MaxSubcategories]} :
                   m \in 1..MaxCategories}}

\* a Python exception that leaves the method
Raised(error) == [kind |-> "raised", error |-> error]

\* the value a method returns
Returned(value) == [kind |-> "returned", value |-> value]

\* return None
ReturnedNone == [kind |-> "None"]

\* SearchMechanism(insurance_categories)
SearchMechanism(insurance_categories) ==
    [categories |-> insurance_categories,
     category_list |-> [i \in 1..Len(insurance_categories) |-> insurance_categories[i].k],
     current_category_index |-> 0,
     current_subcategory_index |-> 0,
     search_completed |-> FALSE,
     current_page |-> 1,
     max_pages |-> 2]

\* seq[index] of a Python list, for an index that is not negative
ListItem(seq, index) ==
    IF index < Len(seq) THEN Returned(seq[index + 1]) ELSE Raised("IndexError")

\* collection[index] with an int: the element of a list; for a dict whose
\* keys are names the lookup of a key that is not there
CollectionItem(collection, index) ==
    IF collection.type = "list" THEN ListItem(collection.names, index)
    ELSE Raised("KeyError")

\* is_last_category
is_last_category(self) ==
    self.current_category_index >= Len(self.category_list) - 1

\* is_last_subcategory
is_last_subcategory(self) ==
    LET current_category == ListItem(self.category_list, self.current_category_index)
    IN IF current_category.kind = "raised" THEN current_category
       ELSE Returned(self.current_subcategory_index
                       >= Len(DictGet(self.categories, current_category.value).names) - 1)

\* get_current_search_item; the search_term of the item is a formatting of
\* the subcategory name that reads and sets no field of the cursor, and is
\* left out of the item
get_current_search_item(self) ==
    IF self.search_completed THEN ReturnedNone
    ELSE
    LET current_category == ListItem(self.category_list, self.current_category_index)
    IN IF current_category.kind = "raised" THEN current_category
       ELSE
       LET current_subcategory ==
               CollectionItem(DictGet(self.categories, current_category.value),
                              self.current_subcategory_index)
       IN IF current_subcategory.kind = "raised" THEN current_subcategory
          ELSE Returned([category |-> current_category.value,
                         subcategory |-> current_subcategory.value,
                         is_last_subcategory |-> is_last_subcategory(self).value,
                         is_last_category |-> is_last_category(self),
                         category_index |-> self.current_category_index,
                         subcategory_index |-> self.current_subcategory_index,
                         current_page |-> self.current_page,
                         max_pages |-> self.max_pages])

\* initialize_search() without a resume point
NoResumePoint == [none |-> TRUE]

\* initialize_search(resume_point): the object after the call and what the
\* call returns; an exception of get_current_search_item is caught and the
\* call returns None
initialize_search(self, resume_point) ==
    LET reset ==
            IF resume_point /= NoResumePoint
            THEN [self EXCEPT !.current_category_index = resume_point.category_index,
                              !.current_subcategory_index = resume_point.subcategory_index,
                              !.current_page = resume_point.current_page,
                              !.search_completed = FALSE]
            ELSE [self EXCEPT !.current_category_index = 0,
                              !.current_subcategory_index = 0,
                              !.current_page = 1,
                              !.search_completed = FALSE]
        current_item == get_current_search_item(reset)
    IN [self |-> reset,
        ret |-> IF current_item.kind = "raised" THEN ReturnedNone ELSE current_item]

\* the step of move_to_next: the next subcategory, the first subcategory of
\* the next category, or the end of the search
Advance(self) ==
    IF ~is_last_subcategory(self).value
    THEN [self EXCEPT !.current_subcategory_index = @ + 1]
    ELSE IF ~is_last_category(self)
    THEN [self EXCEPT !.current_category_index = @ + 1,
                      !.current_subcategory_index = 0]
    ELSE [self EXCEPT !.search_completed = TRUE]

\* move_to_next: the object after the call and what the call returns or raises
move_to_next(self) ==
    IF self.search_completed THEN [self |-> self, ret |-> ReturnedNone]
    ELSE IF is_last_subcategory(self).kind = "raised"
    THEN [self |-> self, ret |-> is_last_subcategory(self)]
    ELSE LET next == Advance(self)
         IN [self |-> next, ret |-> get_current_search_item(next)]

\* the pair of an item that a call has returned is added to the history
Visit(ret) ==
    IF ret.kind = "returned"
    THEN Append(visited, <<ret.value.category, ret.value.subcategory>>)
    ELSE visited

InitSearch ==
    /\ search \in {SearchMechanism(c) : c \in Configurations}
    /\ sm_ret = [op |-> "__init__"]
    /\ visited = <<>>
    /\ PtInit
    /\ UrlEmpty

InitializeSearch ==
    /\ sm_ret.op = "__init__"
    /\ LET r == initialize_search(search, NoResumePoint)
       IN /\ search' = r.self
          /\ sm_ret' = [op |-> "initialize_search", ret |-> r.ret]
          /\ visited' = Visit(r.ret)
    /\ UNCHANGED <<pt_vars, url_vars>>

MoveToNext ==
    /\ sm_ret.op /= "__init__"
    /\ LET r == move_to_next(search)
       IN /\ search' = r.self
          /\ sm_ret' = [op |-> "move_to_next", ret |-> r.ret]
          /\ visited' = Visit(r.ret)
    /\ UNCHANGED <<pt_vars, url_vars>>

GetCurrentSearchItem ==
    /\ sm_ret.op /= "__init__"
    /\ sm_ret' = [op |-> "get_current_search_item",
                  ret |-> get_current_search_item(search)]
    /\ UNCHANGED <<search, visited>>
    /\ UNCHANGED <<pt_vars, url_vars>>

SearchNext == InitializeSearch \/ MoveToNext \/ GetCurrentSearchItem

\* the cursor from its construction, over every configuration
SpecSearch == InitSearch /\ [][SearchNext]_vars

\* the (category, subcategory) pairs of a configuration, in its order
AllPairs(categories) ==
    Concat([i \in 1..Len(categories) |->
        [j \in 1..Len(categories[i].v.names) |->
            <<categories[i].k, categories[i].v.names[j]>>]])

\* both indices of the cursor name an entry of the configuration
InBounds(self) ==
    /\ self.current_category_index \in 0..(Len(self.category_list) - 1)
    /\ self.current_subcategory_index
         \in 0..(Len(self.categories[self.current_category_index + 1].v.names) - 1)

\* C38: from initialize_search() without a resume point, the calls of
\* move_to_next return the (category, subcategory) pairs of the configuration
\* once each and in its order, with both indices in bounds as long as the
\* search is not completed; when every pair has been returned the search is
\* completed, and from then on move_to_next and get_current_search_item
\* return None
C38_CursorWalk ==
    sm_ret.op /= "__init__" =>
        /\ sm_ret.ret.kind /= "raised"
        /\ ~search.search_completed => InBounds(search)
        /\ visited = SubSeq(AllPairs(search.categories), 1, Len(visited))
        /\ search.search_completed =>
              /\ visited = AllPairs(search.categories)
              /\ sm_ret.ret = ReturnedNone

============================================================================
